---- MODULE Spec2Model ----
(***************************************************************************)
(* Verification model of the packet layer of Knot DNS                      *)
(* (src/libknot/packet/pkt.c), of the dnslib zone (zone.c) and of the      *)
(* zone loader (post_load).                                                *)
(*                                                                         *)
(* A packet is a wire buffer of max_size bytes plus cursors.  The wire is  *)
(* modelled RR by RR: every serialised RR is one entry carrying its owner, *)
(* type, class, TTL, rdata and its length in bytes; the header is the      *)
(* record of its counters and flags.  Byte offsets (size, parsed, pos) are *)
(* kept as numbers so that every size check of the code is a size check of *)
(* the model.                                                              *)
(*                                                                         *)
(* Specifications:                                                         *)
(*   SpecBuild  - the writer API on one response packet                    *)
(*   SpecParse  - knot_pkt_parse on received messages                      *)
(*   SpecRT     - the writer API followed by a parse of the produced wire  *)
(*   SpecSection - one packet cleared and reused by writer and parser      *)
(*   SpecType   - knot_pkt_type on headers and questions                   *)
(*   SpecDname  - knot_pkt_put_dname on one compression context            *)
(*   SpecZone   - a dnslib zone: adding nodes and getting them             *)
(*   SpecAdjust - a dnslib zone: adding nodes and the adjust pass          *)
(*   SpecFind   - a dnslib zone: adding nodes and searching names          *)
(*   SpecLoad   - post_load on freshly loaded contents                     *)
(*   SpecChain  - a dnslib zone: a chain of nodes and the adjust pass      *)
(*   SpecParams - a dnslib zone: the NSEC3PARAM of the apex and the pass   *)
(*   SpecPublish - the writer publishing contents while readers read       *)
(*   SpecJournal - apply_journal on loaded contents                        *)
(*   SpecReserve - the writer API with the OPT and TSIG reservations       *)
(*   SpecTrunc  - knot_pkt_parse on messages that end early                *)
(*   SpecQuestion - the writer API on buffers hardly longer than a header  *)
(*   SpecNsec3  - a dnslib zone: any node added to the NSEC3 tree          *)
(***************************************************************************)
EXTENDS Integers, Sequences, FiniteSets, TLC

VARIABLES pkt,    \* the knot_pkt_t under work
          last,   \* the last API call: its name, arguments and result
          alive,  \* FALSE once an assert() of the code has failed (the process aborted)
          rx,     \* SpecRT: the packet obtained by parsing the wire of pkt
          cx,     \* SpecDname: the compression context and the name cells of the wire
          zone,   \* the dnslib zone: apex, trees, hash table, flags, last call
          zl,     \* the zone loader: the input of a post_load call and what it did;
                  \* SpecPublish: zone->contents, the contents, the writer, the readers
          cl      \* SpecType: a packet header and question with its classification

vars == <<pkt, last, alive, rx, cx, zone, zl, cl>>

(***************************************************************************)
(* Program constants                                                       *)
(***************************************************************************)
KNOT_WIRE_HEADER_SIZE == 12
KNOT_RR_HEADER_SIZE == 10
KNOT_WIRE_PTR_MAX == 16383
EDNS_MIN_SIZE == 11
EDNS_NOT_SUPPORTED == 255
KNOT_ANSWER == 0
KNOT_AUTHORITY == 1
KNOT_ADDITIONAL == 2
U16 == 65536

Sections == {KNOT_ANSWER, KNOT_AUTHORITY, KNOT_ADDITIONAL}

\* packet flags of knot_pkt_put / parse flags of knot_pkt_parse
PutFlags == SUBSET {"CHECKDUP", "NOTRUNC"}
ParseFlags == SUBSET {"DUPL_NO_MERGE"}

(***************************************************************************)
(* Bounds of the model                                                     *)
(***************************************************************************)
\* the largest buffer length handed to knot_pkt_new
MaxBuf == 51
\* the TSIG reservation of the one key that knot_pkt_tsig_set may install
TsigMax == 20
\* the largest number of RRs a received message carries
MaxMsgRRs == 3
\* the largest number of trailing bytes after the last RR of a received message
MaxTail == 1

(***************************************************************************)
(* Names.  An owner or question name is a string; two names that differ    *)
(* only in letter case are different byte strings and the same DNS name.   *)
(***************************************************************************)
Names == {"a", "A", "b", "B"}

\* knot_dname_to_lower: case-folds the ASCII letters of the labels
knot_dname_to_lower(n) == IF n = "A" THEN "a" ELSE IF n = "B" THEN "b" ELSE n

\* knot_dname_size: wire length of the name (one label of one byte, plus the root label)
knot_dname_size(n) == 3

\* knot_dname_to_wire(dst, name, maxlen): bytes written, or -1 when maxlen is too small
knot_dname_to_wire(n, maxlen) ==
  IF knot_dname_size(n) > maxlen THEN -1 ELSE knot_dname_size(n)

(***************************************************************************)
(* RRSets handed to knot_pkt_put.  id is the identity of the object (the   *)
(* pointer compared by KNOT_RRSET_COMPARE_PTR).  Objects 1 and 2 are two   *)
(* RRSets with the same header; 3 holds two RRs; 4 is empty.               *)
(***************************************************************************)
NullRR == [id |-> 0, owner |-> "", type |-> "", rclass |-> "", ttl |-> 0, rd |-> <<>>]

RRSetPool ==
  { [id |-> 1, owner |-> "a", type |-> "A",  rclass |-> "IN", ttl |-> 300, rd |-> <<1>>],
    [id |-> 2, owner |-> "a", type |-> "A",  rclass |-> "IN", ttl |-> 300, rd |-> <<2>>],
    [id |-> 3, owner |-> "B", type |-> "NS", rclass |-> "IN", ttl |-> 60,  rd |-> <<1, 2>>],
    [id |-> 4, owner |-> "b", type |-> "A",  rclass |-> "IN", ttl |-> 60,  rd |-> <<>>] }

\* the RRSets the writer is exercised with, and no RRSet at all (NULL)
BuildPool == {r \in RRSetPool : r.id \in {1, 3, 4}} \cup {NullRR}

\* length in bytes of one serialised RR: compressed owner, fixed header, rdata
RRWireLen(type) ==
  IF type = "OPT" THEN EDNS_MIN_SIZE
  ELSE 2 + KNOT_RR_HEADER_SIZE + (IF type = "NS" THEN 2 ELSE IF type = "TSIG" THEN 16 ELSE 4)

\* the RRs of an RRSet as they appear on the wire, one entry per rdata
RECURSIVE RRsOf(_, _)
RRsOf(rr, sec) ==
  IF rr.rd = <<>> THEN <<>>
  ELSE <<[owner |-> rr.owner, type |-> rr.type, rclass |-> rr.rclass, ttl |-> rr.ttl,
          rd |-> Head(rr.rd), len |-> RRWireLen(rr.type), ok |-> TRUE, sec |-> sec]>>
       \o RRsOf([rr EXCEPT !.rd = Tail(rr.rd)], sec)

(***************************************************************************)
(* knot_rrset_to_wire(rr, pos, &len, maxlen, &rr_added, compr)             *)
(***************************************************************************)
knot_rrset_to_wire(rr, maxlen) ==
  IF rr.id = 0
    THEN [ret |-> "KNOT_EINVAL", len |-> 0, rr_added |-> 0]
  ELSE IF Len(rr.rd) * RRWireLen(rr.type) > maxlen
    THEN [ret |-> "KNOT_ESPACE", len |-> 0, rr_added |-> 0]
  ELSE [ret |-> "KNOT_EOK", len |-> Len(rr.rd) * RRWireLen(rr.type), rr_added |-> Len(rr.rd)]

(***************************************************************************)
(* The packet structure (knot_pkt_t).  rr is pkt->rr[0 .. rrset_count)     *)
(* with the matching rr_info[]; each entry also remembers the section that *)
(* was current when it was stored.  wire is the payload behind the         *)
(* question, RR by RR; q is what the buffer holds at the question's place. *)
(***************************************************************************)
NoQ == [qname |-> "", qtype |-> 0, qclass |-> 0]

ZeroHdr == [qd |-> 0, an |-> 0, ns |-> 0, ar |-> 0,
            tc |-> FALSE, qr |-> FALSE, ad |-> FALSE, ra |-> FALSE]

NoSections == [s \in Sections |-> [start |-> 0, count |-> 0]]

\* stands for "no packet" in the variables a specification does not use
NoPkt == [max_size |-> 0]

rrset_count(p) == Len(p.rr)

\* knot_pkt_question_size
knot_pkt_question_size(p) ==
  IF p.qname_size > 0 THEN KNOT_WIRE_HEADER_SIZE + p.qname_size + 4
  ELSE KNOT_WIRE_HEADER_SIZE

\* knot_pkt_have_edns: an OPT RR is configured for the packet
knot_pkt_have_edns(p) == p.opt_version # EDNS_NOT_SUPPORTED

\* pkt_remaining: the subtraction is done in 16 bits
pkt_remaining(p) ==
  (p.max_size - p.size - p.tsig_size
     - (IF knot_pkt_have_edns(p) THEN p.opt_size ELSE 0)) % U16

\* pkt_rr_wirecount
pkt_rr_wirecount(p, s) ==
  IF s = KNOT_ANSWER THEN p.hdr.an
  ELSE IF s = KNOT_AUTHORITY THEN p.hdr.ns
  ELSE p.hdr.ar

\* pkt_rr_wirecount_add with the AUTHORITY case lost: NSCOUNT is never updated
wirecount_add_no_authority(p, s, val) ==
  IF s = KNOT_ANSWER THEN [p EXCEPT !.hdr.an = (@ + val) % U16]
  ELSE [p EXCEPT !.hdr.ar = (@ + val) % U16]

\* pkt_rr_wirecount_add: the header counters are 16 bits wide
pkt_rr_wirecount_add(p, s, val) ==
  IF s = KNOT_ANSWER THEN [p EXCEPT !.hdr.an = (@ + val) % U16]
  ELSE IF s = KNOT_AUTHORITY THEN [p EXCEPT !.hdr.ns = (@ + val) % U16]
  ELSE [p EXCEPT !.hdr.ar = (@ + val) % U16]

\* pkt_contains with KNOT_RRSET_COMPARE_PTR: 1 when the object is stored,
\* KNOT_EINVAL (non-zero as well) for a NULL rrset, else 0
\* pkt_contains that never recognises a stored RRSet
pkt_contains_never(p, r) ==
  IF r.id = 0 THEN -1 ELSE 0

pkt_contains(p, r) ==
  IF r.id = 0 THEN -1
  ELSE IF \E i \in 1..Len(p.rr) : p.rr[i].rrset.id = r.id THEN 1
  ELSE 0

\* knot_pkt_clear_payload
knot_pkt_clear_payload(p) ==
  [p EXCEPT !.parsed = 0,
            !.size = knot_pkt_question_size(p),
            !.hdr.an = 0, !.hdr.ns = 0, !.hdr.ar = 0,
            !.rr = <<>>,
            !.wire = <<>>,
            !.current = KNOT_ANSWER,
            !.sections[KNOT_ANSWER].start = 0]

\* knot_pkt_clear: payload cleared, then size and the 12 header bytes reset
knot_pkt_clear(p) ==
  [knot_pkt_clear_payload(p) EXCEPT !.size = KNOT_WIRE_HEADER_SIZE, !.hdr = ZeroHdr]

\* the structure after the memset of knot_pkt_reset and the OPT defaults
ZeroPkt ==
  [max_size |-> 0, size |-> 0, parsed |-> 0, qname_size |-> 0, q |-> NoQ,
   current |-> KNOT_ANSWER, rr |-> <<>>, wire |-> <<>>, tail |-> 0, hdr |-> ZeroHdr,
   opt_version |-> EDNS_NOT_SUPPORTED, opt_size |-> EDNS_MIN_SIZE,
   tsig_size |-> 0, tsig_rr |-> 0, sections |-> NoSections]

\* knot_pkt_reset(pkt, NULL, len): pkt_wire_alloc, which ends in knot_pkt_clear
knot_pkt_reset_alloc(len) == knot_pkt_clear([ZeroPkt EXCEPT !.max_size = len])

\* knot_pkt_begin past its assertion
knot_pkt_begin(p, s) ==
  [p EXCEPT !.current = s, !.sections[s].start = rrset_count(p)]

(***************************************************************************)
(* The writer API.  Every action is one call; last records the call.  A    *)
(* failed assert() ends the process: alive becomes FALSE and nothing else  *)
(* changes.                                                                *)
(***************************************************************************)
BufLens == {KNOT_WIRE_HEADER_SIZE + 6, MaxBuf}

\* the queries a response is initialised from: with a question, without one
QueryPool ==
  { [qname_size |-> 3, q |-> [qname |-> "a", qtype |-> 1, qclass |-> 1],
     hdr |-> [ZeroHdr EXCEPT !.qd = 1, !.ar = 1, !.ad = TRUE]],
    [qname_size |-> 0, q |-> NoQ,
     hdr |-> [ZeroHdr EXCEPT !.tc = TRUE]] }

Call(op, ret, sec, rr, flags) ==
  [op |-> op, ret |-> ret, sec |-> sec, rr |-> rr, flags |-> flags]

NoCall == [op |-> "none", ret |-> "KNOT_EOK", sec |-> 0, rr |-> 0, flags |-> {}]

Abort(op, sec, rr, flags) ==
  /\ alive' = FALSE
  /\ last' = Call(op, "ABORT", sec, rr, flags)
  /\ UNCHANGED pkt

Return(op, ret, sec, rr, flags, p) ==
  /\ pkt' = p
  /\ last' = Call(op, ret, sec, rr, flags)
  /\ UNCHANGED alive

\* knot_pkt_reset(pkt, NULL, len)
Reset ==
  \E len \in BufLens :
    Return("reset", "KNOT_EOK", 0, 0, {}, knot_pkt_reset_alloc(len))

\* knot_pkt_clear(pkt)
Clear == Return("clear", "KNOT_EOK", 0, 0, {}, knot_pkt_clear(pkt))

\* knot_pkt_init_response(pkt, query)
knot_pkt_init_response(p, query) ==
  IF knot_pkt_question_size(query) > p.max_size
    THEN [ret |-> "KNOT_ESPACE", p |-> p]
  ELSE [ret |-> "KNOT_EOK",
        p |-> knot_pkt_clear_payload(
                [p EXCEPT !.size = knot_pkt_question_size(query),
                          !.qname_size = query.qname_size,
                          !.q = query.q,
                          !.hdr = [query.hdr EXCEPT !.qd = 1, !.qr = TRUE, !.tc = FALSE,
                                                    !.ad = FALSE, !.ra = FALSE]])]

InitResponse ==
  \E query \in QueryPool :
    LET r == knot_pkt_init_response(pkt, query)
    IN  Return("init_response", r.ret, 0, 0, {}, r.p)

\* knot_pkt_put_question(pkt, qname, qclass, qtype); the three assertions are
\* those of lines 409, 410, 415 and of knot_pkt_begin
put_question_asserts(p, qname) ==
  /\ p.size = KNOT_WIRE_HEADER_SIZE
  /\ rrset_count(p) = 0
  /\ knot_dname_to_wire(qname, p.max_size - p.size) = knot_dname_size(qname)

knot_pkt_put_question(p, qname, qclass, qtype) ==
  LET qname_len == knot_dname_to_wire(qname, p.max_size - p.size)
      question_len == 4 + qname_len
  IN  IF qname_len < 0 \/ p.size + question_len > p.max_size
        THEN [ret |-> "KNOT_ESPACE", p |-> p]
      ELSE [ret |-> "KNOT_EOK",
            p |-> knot_pkt_begin(
                    [p EXCEPT !.q = [qname |-> qname, qtype |-> qtype, qclass |-> qclass],
                              !.hdr.qd = 1,
                              !.size = @ + question_len,
                              !.qname_size = qname_len],
                    KNOT_ANSWER)]

PutQuestion ==
  \E qname \in {"a"} :
    LET r == knot_pkt_put_question(pkt, qname, 1, 1)
    IN  IF ~put_question_asserts(pkt, qname)
          \/ (r.ret = "KNOT_EOK" /\ ~(KNOT_ANSWER >= pkt.current))
          THEN Abort("put_question", 0, 0, {})
        ELSE Return("put_question", r.ret, 0, 0, {}, r.p)

\* knot_pkt_begin without its assertion
begin_unchecked(p, s) == TRUE

\* knot_pkt_begin(pkt, section_id)
begin_assert(p, s) == s >= p.current

Begin ==
  \E s \in Sections :
    IF ~begin_assert(pkt, s)
      THEN Abort("begin", s, 0, {})
    ELSE Return("begin", "KNOT_EOK", s, 0, {}, knot_pkt_begin(pkt, s))

\* put_failed with the NOTRUNC flag ignored
put_failed_ignores_notrunc(p, ret, flags) ==
  [ret |-> ret,
   p |-> IF ret = "KNOT_ESPACE" THEN [p EXCEPT !.hdr.tc = TRUE] ELSE p]

\* put_failed swallowing the error once TC is set
put_failed_returns_ok(p, ret, flags) ==
  IF ret = "KNOT_ESPACE" /\ "NOTRUNC" \notin flags
    THEN [ret |-> "KNOT_EOK", p |-> [p EXCEPT !.hdr.tc = TRUE]]
  ELSE [ret |-> ret, p |-> p]

\* knot_pkt_put, the branch taken when knot_rrset_to_wire fails with ret
put_failed(p, ret, flags) ==
  [ret |-> ret,
   p |-> IF ret = "KNOT_ESPACE" /\ "NOTRUNC" \notin flags
           THEN [p EXCEPT !.hdr.tc = TRUE]
           ELSE p]

\* knot_pkt_put(pkt, compress, rr, flags)
knot_pkt_put(p, rr, flags) ==
  IF "CHECKDUP" \in flags /\ pkt_contains(p, rr) # 0
    THEN [ret |-> "KNOT_EOK", p |-> p]
  ELSE
    LET maxlen == pkt_remaining(p)
        w == knot_rrset_to_wire(rr, maxlen)
        rrinfo == [rrset |-> rr, pos |-> p.size, sec |-> p.current]
    IN  IF w.ret # "KNOT_EOK"
          THEN put_failed(p, w.ret, flags)
        ELSE IF w.rr_added > 0
          THEN [ret |-> "KNOT_EOK",
                p |-> pkt_rr_wirecount_add(
                        [p EXCEPT !.rr = Append(@, rrinfo),
                                  !.size = @ + w.len,
                                  !.wire = @ \o RRsOf(rr, p.current)],
                        p.current, w.rr_added)]
        ELSE [ret |-> "KNOT_EOK", p |-> p]

\* a call that stores bytes behind wire + max_size has written outside the buffer
WritesPastBuffer(p, q) == q.size > p.size /\ q.size > p.max_size

\* the outcomes of such a call: the process crashes in it, or the call returns with
\* the memory behind the buffer overwritten; the run is not followed further
Overflow(op, ret, sec, rr, flags, p) ==
  \/ Abort(op, sec, rr, flags)
  \/ /\ pkt' = p
     /\ last' = Call(op, ret, sec, rr, flags)
     /\ alive' = FALSE

PutFrom(pool, flagsets) ==
  \E rr \in pool, flags \in flagsets :
    LET r == knot_pkt_put(pkt, rr, flags)
    IN  IF WritesPastBuffer(pkt, r.p)
          THEN Overflow("put", r.ret, pkt.current, rr.id, flags, r.p)
        ELSE Return("put", r.ret, pkt.current, rr.id, flags, r.p)

\* knot_edns_to_wire(opt_rr, wire, max_size): the OPT RR's size, or KNOT_ESPACE
knot_edns_to_wire(p, max_size) ==
  IF p.opt_size > max_size THEN -1 ELSE p.opt_size

\* the OPT pseudo-RR as serialised from pkt->opt_rr
OptRR(p, sec) ==
  [owner |-> ".", type |-> "OPT", rclass |-> "UDPSIZE", ttl |-> p.opt_version,
   rd |-> 0, len |-> p.opt_size, ok |-> TRUE, sec |-> sec]

\* max_size - size as a size_t: past the end it wraps to a huge value
SizeLeft(p) == IF p.size > p.max_size THEN U16 ELSE p.max_size - p.size

\* knot_pkt_put_opt(pkt)
knot_pkt_put_opt(p) ==
  IF p.opt_version = EDNS_NOT_SUPPORTED
    THEN [ret |-> "KNOT_EINVAL", p |-> p]
  ELSE
    LET ret == knot_edns_to_wire(p, SizeLeft(p))
    IN  IF ret <= 0
          THEN [ret |-> "KNOT_ESPACE", p |-> p]
        ELSE [ret |-> "KNOT_EOK",
              p |-> [pkt_rr_wirecount_add(p, p.current, 1)
                       EXCEPT !.size = @ + ret,
                              !.wire = Append(@, OptRR(p, p.current))]]

PutOpt ==
  LET r == knot_pkt_put_opt(pkt)
  IN  IF WritesPastBuffer(pkt, r.p)
        THEN Overflow("put_opt", r.ret, pkt.current, 0, {}, r.p)
      ELSE Return("put_opt", r.ret, pkt.current, 0, {}, r.p)

\* knot_pkt_add_opt(resp, opt_rr, add_nsid) with the server's OPT RR (version 0,
\* no options): both branches leave opt_rr.size at EDNS_MIN_SIZE
knot_pkt_add_opt(p) ==
  [p EXCEPT !.opt_version = 0, !.opt_size = EDNS_MIN_SIZE]

AddOpt == Return("add_opt", "KNOT_EOK", 0, 0, {}, knot_pkt_add_opt(pkt))

\* knot_pkt_tsig_set(pkt, key): tsig_wire_maxsize is 0 for no key
knot_pkt_tsig_set(p, key) ==
  [p EXCEPT !.tsig_size = IF key = 0 THEN 0 ELSE TsigMax]

TsigSet ==
  \E key \in {0, 1} :
    Return("tsig_set", "KNOT_EOK", 0, 0, {}, knot_pkt_tsig_set(pkt, key))

(***************************************************************************)
(* The parser.  The buffer of the packet holds the header, the question    *)
(* when q is one, the RRs of wire one after the other, and tail further    *)
(* bytes that are no RR.  idx is the number of the next RR of the buffer;  *)
(* it moves together with the byte cursor parsed.                          *)
(***************************************************************************)
\* knot_dname_wire_check(wire + 12, wire + size, wire): the length of the name at the
\* question's place, 0 when no well-formed name lies there within size
knot_dname_wire_check(p) ==
  IF p.q # NoQ /\ KNOT_WIRE_HEADER_SIZE + knot_dname_size(p.q.qname) <= p.size
    THEN knot_dname_size(p.q.qname)
  ELSE 0

\* knot_pkt_parse_question
knot_pkt_parse_question(p) ==
  IF p.hdr.qd > 1
    THEN [ret |-> "KNOT_EMALF", p |-> p]
  ELSE IF p.hdr.qd = 0
    THEN [ret |-> "KNOT_EOK",
          p |-> [p EXCEPT !.parsed = KNOT_WIRE_HEADER_SIZE, !.qname_size = 0]]
  ELSE
    LET len == knot_dname_wire_check(p)
    IN  IF len <= 0
          THEN [ret |-> "KNOT_EMALF", p |-> [p EXCEPT !.parsed = KNOT_WIRE_HEADER_SIZE]]
        ELSE [ret |-> "KNOT_EOK",
              p |-> [p EXCEPT !.parsed = KNOT_WIRE_HEADER_SIZE + len + 4,
                              !.qname_size = len]]

\* the elements of a set of numbers in increasing order
RECURSIVE SortedSeq(_)
SortedSeq(S) ==
  IF S = {} THEN <<>>
  ELSE LET m == CHOOSE x \in S : \A y \in S : x <= y
       IN  <<m>> \o SortedSeq(S \ {m})

Range(f) == {f[i] : i \in DOMAIN f}

\* knot_rrset_merge_sort(a, b): the rdata of b merged into a, duplicates removed
knot_rrset_merge_sort(a, b) ==
  [a EXCEPT !.rd = SortedSeq(Range(a.rd) \cup Range(b.rd)),
            !.ttl = IF b.ttl < a.ttl THEN b.ttl ELSE a.ttl]

\* knot_rrset_equal with KNOT_RRSET_COMPARE_HEADER
rrset_header_equal(a, b) ==
  a.owner = b.owner /\ a.type = b.type /\ a.rclass = b.rclass

\* knot_pkt_merge_rr
knot_pkt_merge_rr(p, rr, flags) ==
  IF "DUPL_NO_MERGE" \in flags
    THEN [ret |-> "KNOT_ENOENT", p |-> p]
  ELSE
    LET same == {i \in 1..Len(p.rr) : rrset_header_equal(p.rr[i].rrset, rr)}
    IN  IF same # {}
          THEN LET i == CHOOSE x \in same : \A y \in same : x <= y
               IN  [ret |-> "KNOT_EOK",
                    p |-> [p EXCEPT !.rr[i].rrset = knot_rrset_merge_sort(@, rr)]]
        ELSE [ret |-> "KNOT_ENOENT", p |-> p]

\* knot_pkt_rr_from_wire(wire, &parsed, max_size): the RRSet of the RR at the cursor,
\* NullRR when the bytes there are no RR lying within max_size
knot_pkt_rr_from_wire(p, idx) ==
  IF idx > Len(p.wire) \/ p.parsed + p.wire[idx].len > p.max_size
    THEN NullRR
  ELSE LET e == p.wire[idx]
       IN  [id |-> 10 + idx, owner |-> knot_dname_to_lower(e.owner), type |-> e.type,
            rclass |-> e.rclass, ttl |-> e.ttl, rd |-> <<e.rd>>]

\* tsig_rdata_is_ok / knot_edns_new_from_rr: decided by the rdata of the RR alone
tsig_rdata_is_ok(e) == e.ok

knot_edns_new_from_rr(p, e) ==
  IF e.ok
    THEN [ret |-> "KNOT_EOK", p |-> [p EXCEPT !.opt_version = 0, !.opt_size = e.len]]
  ELSE [ret |-> "KNOT_EMALF", p |-> p]

\* knot_pkt_parse_rr; the result carries the RR number that follows
knot_pkt_parse_rr(p, idx, flags) ==
  IF p.parsed >= p.size
    THEN [ret |-> "KNOT_EFEWDATA", p |-> p, idx |-> idx]
  ELSE
    LET rr == knot_pkt_rr_from_wire(p, idx)
    IN  IF rr = NullRR
          THEN [ret |-> "KNOT_EMALF", p |-> p, idx |-> idx]
        ELSE
          LET e == p.wire[idx]
              p1 == [p EXCEPT !.parsed = @ + e.len]
              m == knot_pkt_merge_rr(p1, rr, flags)
              p2 == [p1 EXCEPT !.rr = Append(@, [rrset |-> rr, pos |-> p.parsed,
                                                  sec |-> p.current]),
                               !.sections[p.current].count = @ + 1]
          IN  IF m.ret = "KNOT_EOK"
                THEN [ret |-> "KNOT_EOK", p |-> m.p, idx |-> idx + 1]
              ELSE IF rr.type = "TSIG"
                THEN IF p2.tsig_rr # 0 \/ ~tsig_rdata_is_ok(e)
                       THEN [ret |-> "KNOT_EMALF", p |-> p2, idx |-> idx + 1]
                     ELSE [ret |-> "KNOT_EOK", p |-> [p2 EXCEPT !.tsig_rr = Len(p2.rr)],
                           idx |-> idx + 1]
              ELSE IF rr.type = "OPT"
                THEN LET o == knot_edns_new_from_rr(p2, e)
                     IN  [ret |-> o.ret, p |-> o.p, idx |-> idx + 1]
              ELSE [ret |-> "KNOT_EOK", p |-> p2, idx |-> idx + 1]

\* knot_pkt_parse_section: n is the number of RRs of the section still to parse
RECURSIVE parse_section_loop(_, _, _, _)
parse_section_loop(p, idx, n, flags) ==
  IF n = 0 THEN [ret |-> "KNOT_EOK", p |-> p, idx |-> idx]
  ELSE LET r == knot_pkt_parse_rr(p, idx, flags)
       IN  IF r.ret # "KNOT_EOK" THEN r
           ELSE parse_section_loop(r.p, r.idx, n - 1, flags)

knot_pkt_parse_section(p, idx, flags) ==
  parse_section_loop(p, idx, pkt_rr_wirecount(p, p.current), flags)

\* knot_pkt_parse_payload: the loop over the sections, then the two final checks
RECURSIVE parse_sections(_, _, _, _)
parse_sections(p, idx, s, flags) ==
  LET r == knot_pkt_parse_section(knot_pkt_begin(p, s), idx, flags)
  IN  IF r.ret # "KNOT_EOK" \/ s = KNOT_ADDITIONAL THEN r
      ELSE parse_sections(r.p, r.idx, s + 1, flags)

tsig_not_last(p) ==
  LET ar == p.sections[KNOT_ADDITIONAL]
  IN  p.tsig_rr # 0 /\ ar.count > 0 /\ p.tsig_rr # ar.start + ar.count

\* payload_checks without the check for trailing garbage
payload_checks_no_garbage_check(p) ==
  IF tsig_not_last(p) THEN "KNOT_EMALF" ELSE "KNOT_EOK"

\* knot_pkt_parse_payload, the checks behind the loop: TSIG placement, trailing garbage
payload_checks(p) ==
  IF tsig_not_last(p) THEN "KNOT_EMALF"
  ELSE IF p.parsed < p.size THEN "KNOT_EMALF"
  ELSE "KNOT_EOK"

knot_pkt_parse_payload(p, flags) ==
  LET r == parse_sections(p, 1, KNOT_ANSWER, flags)
  IN  IF r.ret # "KNOT_EOK" THEN [ret |-> r.ret, p |-> r.p]
      ELSE [ret |-> payload_checks(r.p), p |-> r.p]

\* knot_pkt_parse
knot_pkt_parse(p, flags) ==
  LET q == knot_pkt_parse_question(p)
  IN  IF q.ret = "KNOT_EOK" THEN knot_pkt_parse_payload(q.p, flags) ELSE q

\* the assertions met by knot_pkt_parse: those of knot_pkt_parse_payload and of its
\* first knot_pkt_begin (the later ones follow from it)
parse_asserts(p) ==
  knot_pkt_parse_question(p).ret = "KNOT_EOK" => (p.size > 0 /\ begin_assert(p, KNOT_ANSWER))

\* knot_pkt_parse(pkt, flags) on the packet under work
Parse ==
  \E flags \in ParseFlags :
    LET r == knot_pkt_parse(pkt, flags)
    IN  IF ~parse_asserts(pkt)
          THEN Abort("parse", 0, 0, flags)
        ELSE Return("parse", r.ret, 0, 0, flags, r.p)

(***************************************************************************)
(* Received messages.  A message announces qd questions and an, ns, ar RRs *)
(* in its header and carries the RRs of rrs, then tail bytes that are no   *)
(* RR.  The announced counts need not match what is carried.               *)
(***************************************************************************)
MsgRR(owner, type, rclass, rd) ==
  [owner |-> owner, type |-> type, rclass |-> rclass, ttl |-> 0, rd |-> rd,
   len |-> RRWireLen(type), ok |-> TRUE]

MsgRRs ==
  { MsgRR("a", "A", "IN", 1),
    MsgRR("b", "TSIG", "ANY", 1),
    MsgRR(".", "OPT", "UDP4096", 0),
    MsgRR(".", "OPT", "UDP512", 0) }

RECURSIVE SeqsUpTo(_, _)
SeqsUpTo(S, n) ==
  IF n = 0 THEN {<<>>}
  ELSE LET shorter == SeqsUpTo(S, n - 1)
       IN  shorter \cup {Append(q, x) : q \in {t \in shorter : Len(t) = n - 1}, x \in S}

RECURSIVE SumLen(_)
SumLen(rrs) == IF rrs = <<>> THEN 0 ELSE Head(rrs).len + SumLen(Tail(rrs))

Messages ==
  [qd : 0..2,
   an : 0..MaxMsgRRs, ns : 0..MaxMsgRRs, ar : 0..MaxMsgRRs,
   rrs : SeqsUpTo(MsgRRs, MaxMsgRRs),
   tail : 0..MaxTail]

Announced(m) == m.an + m.ns + m.ar

\* the byte length of the message
MsgLen(m) ==
  KNOT_WIRE_HEADER_SIZE + (IF m.qd >= 1 THEN knot_dname_size("a") + 4 ELSE 0)
    + SumLen(m.rrs) + m.tail

\* knot_pkt_new(wire, len, mm): knot_pkt_reset with pkt_wire_set on the received bytes
knot_pkt_reset_wire(m) ==
  [ZeroPkt EXCEPT !.max_size = MsgLen(m),
                  !.size = MsgLen(m),
                  !.hdr = [ZeroHdr EXCEPT !.qd = m.qd, !.an = m.an, !.ns = m.ns, !.ar = m.ar],
                  !.q = IF m.qd >= 1 THEN [qname |-> "a", qtype |-> 1, qclass |-> 1] ELSE NoQ,
                  !.wire = m.rrs,
                  !.tail = m.tail]

InitParse ==
  /\ pkt \in {knot_pkt_reset_wire(m) : m \in {x \in Messages : Announced(x) <= MaxMsgRRs}}
  /\ last = NoCall
  /\ alive = TRUE
  /\ rx = NoPkt
  /\ cx = <<>>
  /\ zone = <<>> /\ zl = <<>> /\ cl = <<>>

\* every received message is parsed once
NextParse ==
  /\ alive
  /\ last.op = "none"
  /\ UNCHANGED <<rx, cx, zone, zl, cl>>
  /\ Parse

SpecParse == InitParse /\ [][NextParse]_vars

(***************************************************************************)
(* Received messages that end early: the datagram stops up to MaxCut bytes  *)
(* before the end of its question entry or of its last RR.  The buffer is   *)
(* as long as the datagram; q and wire tell what the sender had written at  *)
(* these places, of which only the bytes below size have arrived.           *)
(***************************************************************************)
MaxCut == 4

CutMessages == {m \in Messages : Announced(m) <= MaxMsgRRs /\ m.tail = 0}

knot_pkt_reset_cut(m, cut) ==
  [knot_pkt_reset_wire(m) EXCEPT !.max_size = MsgLen(m) - cut, !.size = MsgLen(m) - cut]

CutInputs ==
  {x \in CutMessages \X (0..MaxCut) : MsgLen(x[1]) - x[2] >= KNOT_WIRE_HEADER_SIZE}

InitTrunc ==
  /\ pkt \in {knot_pkt_reset_cut(x[1], x[2]) : x \in CutInputs}
  /\ last = NoCall
  /\ alive = TRUE
  /\ rx = NoPkt
  /\ cx = <<>>
  /\ zone = <<>> /\ zl = <<>> /\ cl = <<>>

SpecTrunc == InitTrunc /\ [][NextParse]_vars

\* knot_pkt_new(NULL, len, mm)
InitBuild ==
  /\ pkt \in {knot_pkt_reset_alloc(len) : len \in BufLens}
  /\ last = NoCall
  /\ alive = TRUE
  /\ rx = NoPkt
  /\ cx = <<>>
  /\ zone = <<>> /\ zl = <<>> /\ cl = <<>>

NextBuild ==
  /\ alive
  /\ UNCHANGED <<rx, cx, zone, zl, cl>>
  /\ \/ InitResponse
     \/ PutQuestion
     \/ Begin
     \/ PutFrom(BuildPool, PutFlags)
     \/ PutOpt
     \/ AddOpt

SpecBuild == InitBuild /\ [][NextBuild]_vars

(***************************************************************************)
(* The writer API on buffers that leave up to MaxRoom bytes behind the      *)
(* header, so that a question fits whole, in part, or not at all.           *)
(***************************************************************************)
MaxRoom == 8

InitQuestion ==
  /\ pkt \in {knot_pkt_reset_alloc(len) :
               len \in KNOT_WIRE_HEADER_SIZE..(KNOT_WIRE_HEADER_SIZE + MaxRoom)}
  /\ last = NoCall
  /\ alive = TRUE
  /\ rx = NoPkt
  /\ cx = <<>>
  /\ zone = <<>> /\ zl = <<>> /\ cl = <<>>

NextQuestion ==
  /\ alive
  /\ UNCHANGED <<rx, cx, zone, zl, cl>>
  /\ \/ PutQuestion \/ Begin \/ Clear \/ PutFrom(BuildPool, {{}})

SpecQuestion == InitQuestion /\ [][NextQuestion]_vars

(***************************************************************************)
(* The writer API with the reservations for the OPT and TSIG records made  *)
(* at any moment of the build.                                             *)
(***************************************************************************)
NextReserve ==
  /\ alive
  /\ UNCHANGED <<rx, cx, zone, zl, cl>>
  /\ \/ InitResponse
     \/ PutQuestion
     \/ TsigSet
     \/ AddOpt
     \/ Begin
     \/ PutFrom(BuildPool, {{}})

SpecReserve == InitBuild /\ [][NextReserve]_vars

(***************************************************************************)
(* A built packet sent and received: the size bytes of the writer's buffer *)
(* are handed to knot_pkt_new and parsed into rx.                          *)
(***************************************************************************)
\* knot_pkt_new(wire, size, mm) on the bytes of packet p
knot_pkt_reset_sent(p) ==
  [ZeroPkt EXCEPT !.max_size = p.size,
                  !.size = p.size,
                  !.hdr = p.hdr,
                  !.q = p.q,
                  !.wire = p.wire]

Receive ==
  \E flags \in ParseFlags :
    LET r == knot_pkt_parse(knot_pkt_reset_sent(pkt), flags)
    IN  /\ rx' = r.p
        /\ last' = Call("receive", r.ret, 0, 0, flags)
        /\ UNCHANGED <<pkt, alive>>

InitRT ==
  /\ pkt = knot_pkt_reset_alloc(MaxBuf)
  /\ last = NoCall
  /\ alive = TRUE
  /\ rx = NoPkt
  /\ cx = <<>>
  /\ zone = <<>> /\ zl = <<>> /\ cl = <<>>

\* the packet is built call by call and received once
NextRT ==
  /\ alive
  /\ rx = NoPkt
  /\ UNCHANGED <<cx, zone, zl, cl>>
  /\ \/ PutQuestion /\ UNCHANGED rx
     \/ Begin /\ UNCHANGED rx
     \/ PutFrom(RRSetPool, {{}}) /\ UNCHANGED rx
     \/ Receive

SpecRT == InitRT /\ [][NextRT]_vars

(***************************************************************************)
(* One packet structure used over and over: allocated or received, filled  *)
(* or parsed, cleared, used again.                                         *)
(***************************************************************************)
\* pkt->rr[] holds this many RRSets
MaxRRSets == 3

SectionMsgs ==
  {m \in Messages : /\ m.tail = 0
                    /\ m.qd <= 1
                    /\ Announced(m) <= 2
                    /\ Len(m.rrs) <= 2
                    /\ \A i \in 1..Len(m.rrs) : m.rrs[i].type = "A"}

InitSection ==
  /\ pkt \in {knot_pkt_reset_alloc(MaxBuf)} \cup {knot_pkt_reset_wire(m) : m \in SectionMsgs}
  /\ last = NoCall
  /\ alive = TRUE
  /\ rx = NoPkt
  /\ cx = <<>>
  /\ zone = <<>> /\ zl = <<>> /\ cl = <<>>

NextSection ==
  /\ alive
  /\ UNCHANGED <<rx, cx, zone, zl, cl>>
  /\ \/ Clear
     \/ PutQuestion
     \/ Begin
     \/ rrset_count(pkt) < MaxRRSets /\ PutFrom({r \in RRSetPool : r.id = 1}, {{}})
     \/ /\ rrset_count(pkt) + Len(pkt.wire) <= MaxRRSets
        /\ \A s \in Sections : pkt.sections[s].count + Len(pkt.wire) <= MaxRRSets
        /\ Parse

SpecSection == InitSection /\ [][NextSection]_vars

(***************************************************************************)
(* Name compression (knot_pkt_put_dname).  The name bytes of the wire are  *)
(* cells at byte offsets: a label, a compression pointer, or the root      *)
(* label.  A name to write is the sequence of its labels.  cx is the       *)
(* knot_compr_t of one knot_pkt_put call together with these cells.        *)
(***************************************************************************)
\* the names written start up to DnameNear bytes before KNOT_WIRE_PTR_MAX
DnameNear == 5
\* names written with one compression context
MaxDnames == 3

\* length of a label's text in bytes
LabLen(l) == IF l = "www" THEN 3 ELSE 1

LabCell(l) == [k |-> "lab", l |-> l, to |-> 0]
PtrCell(t) == [k |-> "ptr", l |-> "", to |-> t]
RootCell == [k |-> "root", l |-> "", to |-> 0]

CellSize(c) ==
  IF c.k = "lab" THEN 1 + LabLen(c.l) ELSE IF c.k = "ptr" THEN 2 ELSE 1

\* the question name, at offset KNOT_WIRE_HEADER_SIZE
QName == <<"a", "b">>

DnamePool ==
  { <<>>, <<"a", "b">>, <<"x", "a", "b">>, <<"y", "x", "a", "b">>, <<"www", "x", "a", "b">>,
    <<"x", "c">> }

RECURSIVE LabelBytes(_)
LabelBytes(labels) ==
  IF labels = <<>> THEN 0 ELSE 1 + LabLen(Head(labels)) + LabelBytes(Tail(labels))

LabelCells(labels) == [i \in 1..Len(labels) |-> LabCell(labels[i])]

\* the cells of a sequence laid out from offset pos on
RECURSIVE PlaceCells(_, _, _)
PlaceCells(w, pos, cells) ==
  IF cells = <<>> THEN w
  ELSE PlaceCells((pos :> Head(cells)) @@ w, pos + CellSize(Head(cells)), Tail(cells))

\* knot_wire_put_pointer stores the offset in the low 14 bits of the two bytes
StoredPtr(t) == PtrCell(t % (KNOT_WIRE_PTR_MAX + 1))

\* knot_wire_next_label(lp, wire): the next label, compression pointers followed
RECURSIVE knot_wire_seek_label(_, _)
knot_wire_seek_label(w, pos) ==
  IF w[pos].k = "ptr" THEN knot_wire_seek_label(w, w[pos].to) ELSE pos

knot_wire_next_label(w, pos) == knot_wire_seek_label(w, pos + CellSize(w[pos]))

\* lines 463-466: the hinted suffix shortened by n labels
RECURSIVE skip_suffix(_, _, _)
skip_suffix(w, pos, n) ==
  IF n <= 0 THEN pos ELSE skip_suffix(w, knot_wire_next_label(w, pos), n - 1)

NoSpace == [ret |-> -1, cells |-> <<>>, ptr |-> -1]

\* lines 480-511: the labels i.. of the name against the suffix at suf; mb is
\* match_begin, cp is compr_ptr
RECURSIVE match_labels(_, _, _, _, _, _, _, _, _)
match_labels(w, dname, max, i, suf, mb, cp, written, out) ==
  IF i > Len(dname)
    THEN IF mb = i
           THEN IF written + 1 > max THEN NoSpace
                ELSE [ret |-> written + 1, cells |-> Append(out, RootCell), ptr |-> -1]
         ELSE IF written + 2 > max THEN NoSpace
         ELSE [ret |-> written + 2, cells |-> Append(out, StoredPtr(cp)), ptr |-> cp]
  ELSE
    LET next_suffix == knot_wire_next_label(w, suf)
        mismatch == SubSeq(dname, mb, i)
    IN  IF w[suf] # LabCell(dname[i])
          THEN IF written + LabelBytes(mismatch) > max THEN NoSpace
               ELSE match_labels(w, dname, max, i + 1, next_suffix, i + 1, next_suffix,
                                 written + LabelBytes(mismatch), out \o LabelCells(mismatch))
        ELSE match_labels(w, dname, max, i + 1, next_suffix, mb, cp, written, out)

\* knot_pkt_put_dname(dname, dst, max, compr): bytes written (-1 for KNOT_ESPACE), the
\* cells written, the offset handed to knot_wire_put_pointer (-1 when none), the hint
knot_pkt_put_dname(dname, max, c) ==
  IF dname = <<>>
    THEN (IF max < 1 THEN NoSpace ELSE [ret |-> 1, cells |-> <<RootCell>>, ptr |-> -1])
           @@ [suffix |-> c.suffix]
  ELSE
    LET name_labels == Len(dname)
        suffix == skip_suffix(c.wire, c.suffix.pos, c.suffix.labels - name_labels)
        suffix_labels == IF c.suffix.labels > name_labels THEN name_labels ELSE c.suffix.labels
        lead == SubSeq(dname, 1, name_labels - suffix_labels)
        r == IF LabelBytes(lead) > max THEN NoSpace
             ELSE match_labels(c.wire, dname, max, Len(lead) + 1, suffix, Len(lead) + 1, suffix,
                               LabelBytes(lead), LabelCells(lead))
    IN  r @@ [suffix |-> IF r.ret > 2 /\ c.wire_pos < KNOT_WIRE_PTR_MAX
                           THEN [pos |-> c.wire_pos, labels |-> name_labels]
                           ELSE c.suffix]

\* the offsets at which knot_pkt_put starts to serialise: right behind the question,
\* and around the last offset a pointer can address
QuestionEnd == KNOT_WIRE_HEADER_SIZE + LabelBytes(QName) + 1 + 4

StartOffsets ==
  {QuestionEnd} \cup ((KNOT_WIRE_PTR_MAX - DnameNear) .. (KNOT_WIRE_PTR_MAX + 1))

\* knot_pkt_put, lines 565-571: the context of one call
NewCompr(w, size) ==
  [wire |-> w, wire_pos |-> size,
   suffix |-> [pos |-> KNOT_WIRE_HEADER_SIZE, labels |-> Len(QName)],
   n |-> 0, ret |-> 0, ptr |-> -1, name |-> <<>>, max |-> 0]

InitDname ==
  /\ cx \in {NewCompr(PlaceCells(<<>>, KNOT_WIRE_HEADER_SIZE, Append(LabelCells(QName), RootCell)),
                      size) : size \in StartOffsets}
  /\ pkt = NoPkt
  /\ last = NoCall
  /\ alive = TRUE
  /\ rx = NoPkt
  /\ zone = <<>> /\ zl = <<>> /\ cl = <<>>

\* a pointer whose offset does not fit 14 bits has damaged the message
BadPointer(c) == c.ptr > KNOT_WIRE_PTR_MAX

\* one name serialised by knot_rrset_to_wire: the name goes to wire + wire_pos, and
\* wire_pos moves behind it and behind the gap bytes that follow it in the RR
PutDname ==
  \E dname \in DnamePool, max \in {3, 255}, gap \in {0, KNOT_RR_HEADER_SIZE} :
    /\ cx.n < MaxDnames
    /\ ~BadPointer(cx)
    /\ LET r == knot_pkt_put_dname(dname, max, cx)
       IN  cx' = IF r.ret < 0
                   THEN [cx EXCEPT !.n = @ + 1, !.ret = r.ret, !.ptr = -1, !.name = dname,
                                   !.max = max]
                 ELSE [cx EXCEPT !.wire = PlaceCells(@, cx.wire_pos, r.cells),
                                 !.wire_pos = @ + r.ret + gap,
                                 !.suffix = r.suffix,
                                 !.n = @ + 1, !.ret = r.ret, !.ptr = r.ptr, !.name = dname,
                                 !.max = max]

NextDname ==
  /\ UNCHANGED <<pkt, last, alive, rx, zone, zl, cl>>
  /\ PutDname

SpecDname == InitDname /\ [][NextDname]_vars

(***************************************************************************)
(* Classification of a packet (knot_pkt_type).  The header gives the       *)
(* 4-bit opcode and the QR bit; the question, when there is one, gives the *)
(* 16-bit QTYPE.  The result is one query type, with the response flag     *)
(* OR-ed in or not.                                                        *)
(***************************************************************************)
KNOT_OPCODE_QUERY == 0
KNOT_OPCODE_NOTIFY == 4
KNOT_OPCODE_UPDATE == 5
KNOT_RRTYPE_AXFR == 252
KNOT_RRTYPE_IXFR == 251
U8 == 256

\* QTYPE values are drawn from the first QTypeSpan + 1 blocks of 256 values
QTypeSpan == 2

Opcodes == 0..15

QTypes ==
  {b * U8 + r : b \in 0..QTypeSpan, r \in {0, 1, 2, 250, KNOT_RRTYPE_IXFR, KNOT_RRTYPE_AXFR, 255}}
    \cup {U16 - 1}

\* knot_pkt_qtype: 0 without a question, else the 16 bits behind the QNAME
knot_pkt_qtype(c) == IF c.qname_size = 0 THEN 0 ELSE c.qtype

Classified(type, response) == [type |-> type, response |-> response]

\* knot_pkt_type: query_type is a uint8_t, it holds the low 8 bits of the QTYPE
knot_pkt_type(c) ==
  LET is_query == c.qr = 0
      query_type == knot_pkt_qtype(c) % U8
      ret == IF c.opcode = KNOT_OPCODE_QUERY
               THEN IF query_type = 0 THEN "INVALID"
                    ELSE IF query_type = KNOT_RRTYPE_AXFR THEN "AXFR"
                    ELSE IF query_type = KNOT_RRTYPE_IXFR THEN "IXFR"
                    ELSE "NORMAL"
             ELSE IF c.opcode = KNOT_OPCODE_NOTIFY THEN "NOTIFY"
             ELSE IF c.opcode = KNOT_OPCODE_UPDATE THEN "UPDATE"
             ELSE "INVALID"
  IN  Classified(ret, ~is_query)

NotClassified == Classified("", FALSE)

InitType ==
  /\ cl \in [opcode : Opcodes, qtype : QTypes, qr : {0, 1}, qname_size : {0, 3},
             result : {NotClassified}]
  /\ pkt = NoPkt
  /\ last = NoCall
  /\ alive = TRUE
  /\ rx = NoPkt
  /\ cx = <<>> /\ zone = <<>> /\ zl = <<>>

\* knot_pkt_type(packet)
Classify ==
  /\ cl.result = NotClassified
  /\ cl' = [cl EXCEPT !.result = knot_pkt_type(cl)]

NextType ==
  /\ UNCHANGED <<pkt, last, alive, rx, cx, zone, zl>>
  /\ Classify

SpecType == InitType /\ [][NextType]_vars

(***************************************************************************)
(* The dnslib zone (dnslib_zone_t).  A domain name is the sequence of its  *)
(* labels, leftmost first.  Nodes and domain names are objects: a node is  *)
(* known by its id, a dname object by its id, and two objects may carry    *)
(* the same name.  The two trees are AVL trees of node ids ordered by the  *)
(* canonical order of the owners.                                          *)
(***************************************************************************)
\* labels in their canonical (bytewise) order
LabelOrder == <<"a", "b", "c", "ha", "hb", "hc", "hz", "o", "z">>

LabelRank(l) == CHOOSE i \in 1..Len(LabelOrder) : LabelOrder[i] = l

Front(q) == SubSeq(q, 1, Len(q) - 1)

Last(q) == q[Len(q)]

\* dnslib_dname_compare: canonical order, labels compared from the rightmost on
RECURSIVE dnslib_dname_compare(_, _)
dnslib_dname_compare(a, b) ==
  IF a = <<>> /\ b = <<>> THEN 0
  ELSE IF a = <<>> THEN -1
  ELSE IF b = <<>> THEN 1
  ELSE IF LabelRank(Last(a)) < LabelRank(Last(b)) THEN -1
  ELSE IF LabelRank(Last(a)) > LabelRank(Last(b)) THEN 1
  ELSE dnslib_dname_compare(Front(a), Front(b))

\* dnslib_dname_matched_labels: the number of labels of the longest common suffix
RECURSIVE dnslib_dname_matched_labels(_, _)
dnslib_dname_matched_labels(a, b) ==
  IF a = <<>> \/ b = <<>> \/ Last(a) # Last(b) THEN 0
  ELSE 1 + dnslib_dname_matched_labels(Front(a), Front(b))

dnslib_dname_label_count(a) == Len(a)

\* dnslib_dname_is_subdomain(sub, domain): sub is domain or ends with it
dnslib_dname_is_subdomain(sub, domain) ==
  dnslib_dname_matched_labels(sub, domain) = Len(domain)

\* the name of the zone and the names used in it
ApexName == <<"z">>

\* dnslib_nsec3_sha1 and base32hex: the hash label of a name
Nsec3Hash(name) ==
  IF name[1] = "a" THEN "ha"
  ELSE IF name[1] = "b" THEN "hb"
  ELSE IF name[1] = "c" THEN "hc"
  ELSE "hz"

\* the node objects handed to the zone: owner name, parent node, the types of the
\* RRSets held, and for the RRSets with names in their rdata the dname objects there
NoNode == 0

ZNode(owner, parent, types, rdnames) ==
  [owner |-> owner, parent |-> parent, types |-> types, rdnames |-> rdnames]

ZNodes ==
  << ZNode(<<"z">>, NoNode, {"SOA", "NS"}, <<101>>),
     ZNode(<<"a", "z">>, 1, {"NS"}, <<102>>),
     ZNode(<<"b", "a", "z">>, 2, {"PTR", "NS"}, <<4>>),
     ZNode(<<"c", "z">>, 1, {"MX"}, <<103, 104>>),
     ZNode(<<"a", "z">>, 1, {"A"}, <<>>),
     ZNode(<<"z">>, NoNode, {"TXT"}, <<>>),
     ZNode(<<"o">>, NoNode, {"A"}, <<>>),
     ZNode(<<"hz", "z">>, NoNode, {"NSEC3"}, <<105>>),
     ZNode(<<"ha", "z">>, NoNode, {"NSEC3"}, <<>>),
     ZNode(<<"o">>, NoNode, {"NSEC3"}, <<>>),
     ZNode(<<"c", "b", "a", "z">>, 3, {"A"}, <<>>) >>

NodeIds == 1..Len(ZNodes)

\* the nodes offered to dnslib_zone_add_node and to dnslib_zone_add_nsec3_node
PlainNodes == 2..7

Nsec3Nodes == 8..10

Owner(n) == ZNodes[n].owner

\* the dname objects in rdata: each with its name
RdataDnames == {101, 102, 103, 104, 105}

RdataName(d) ==
  IF d = 101 THEN <<"b", "a", "z">>
  ELSE IF d = 102 THEN <<"c", "z">>
  ELSE IF d = 103 THEN <<"a", "z">>
  ELSE IF d = 104 THEN <<"o">>
  ELSE <<"z">>

\* the name of a dname object: a node's owner object carries the node's id
DnameName(d) == IF d \in NodeIds THEN Owner(d) ELSE RdataName(d)

OwnerObj(n) == n

\* dnslib_node_compare
dnslib_node_compare(n1, n2) == dnslib_dname_compare(Owner(n1), Owner(n2))

(***************************************************************************)
(* The AVL tree (common/tree.h): TREE_INSERT puts an element that is not   *)
(* less than a node into that node's right subtree, equal ones included.   *)
(***************************************************************************)
Nil == [height |-> 0]

Max(a, b) == IF a > b THEN a ELSE b

TreeNode(n, l, r) ==
  [height |-> 1 + Max(l.height, r.height), n |-> n, left |-> l, right |-> r]

TREE_DELTA(t) == IF t.height = 0 THEN 0 ELSE t.left.height - t.right.height

TREE_ROTL(t) ==
  LET r == t.right IN TreeNode(r.n, TreeNode(t.n, t.left, r.left), r.right)

TREE_ROTR(t) ==
  LET l == t.left IN TreeNode(l.n, l.left, TreeNode(t.n, l.right, t.right))

TREE_BALANCE(t) ==
  LET delta == TREE_DELTA(t)
  IN  IF delta < -1
        THEN TREE_ROTL(IF TREE_DELTA(t.right) > 0
                         THEN TreeNode(t.n, t.left, TREE_ROTR(t.right))
                         ELSE t)
      ELSE IF delta > 1
        THEN TREE_ROTR(IF TREE_DELTA(t.left) < 0
                         THEN TreeNode(t.n, TREE_ROTL(t.left), t.right)
                         ELSE t)
      ELSE t

RECURSIVE TREE_INSERT(_, _)
TREE_INSERT(t, elm) ==
  IF t.height = 0 THEN TreeNode(elm, Nil, Nil)
  ELSE IF dnslib_node_compare(elm, t.n) < 0
    THEN TREE_BALANCE(TreeNode(t.n, TREE_INSERT(t.left, elm), t.right))
  ELSE TREE_BALANCE(TreeNode(t.n, t.left, TREE_INSERT(t.right, elm)))

\* TREE_FIND with a dummy node that owns name: the first equal node on the way down
RECURSIVE TREE_FIND(_, _)
TREE_FIND(t, name) ==
  IF t.height = 0 THEN NoNode
  ELSE LET c == dnslib_dname_compare(name, Owner(t.n))
       IN  IF c = 0 THEN t.n
           ELSE IF c < 0 THEN TREE_FIND(t.left, name)
           ELSE TREE_FIND(t.right, name)

\* TREE_FORWARD_APPLY visits the nodes in this order
RECURSIVE InOrder(_)
InOrder(t) ==
  IF t.height = 0 THEN <<>> ELSE InOrder(t.left) \o <<t.n>> \o InOrder(t.right)

\* TREE_FIND_LESS_EQUAL: prev is the last node where the search went right; found is
\* the equal node, or prev when the search runs off the tree
RECURSIVE TREE_FIND_LESS_EQUAL(_, _, _)
TREE_FIND_LESS_EQUAL(t, name, prev) ==
  IF t.height = 0 THEN [exact_match |-> FALSE, found |-> prev, prev |-> prev]
  ELSE LET c == dnslib_dname_compare(name, Owner(t.n))
       IN  IF c = 0 THEN [exact_match |-> TRUE, found |-> t.n, prev |-> prev]
           ELSE IF c < 0 THEN TREE_FIND_LESS_EQUAL(t.left, name, prev)
           ELSE TREE_FIND_LESS_EQUAL(t.right, name, t.n)

\* the position of node n in sequence q (0 when absent)
IndexOf(q, n) ==
  IF \E i \in 1..Len(q) : q[i] = n THEN CHOOSE i \in 1..Len(q) : q[i] = n ELSE 0

\* dnslib_node_previous: the node before n in canonical order, the last one for the first
dnslib_node_previous(t, n) ==
  LET q == InOrder(t)
      i == IndexOf(q, n)
  IN  IF i = 0 THEN NoNode ELSE IF i = 1 THEN q[Len(q)] ELSE q[i - 1]

(***************************************************************************)
(* The zone: construction and the adding of nodes.                         *)
(***************************************************************************)
\* the result of the last call on the zone: arg is the name given (the owner of
\* the node given to an add, whose node is that node); previous stays Unassigned
\* when the call does not write it; searched tells whether a tree or the hash
\* table was searched
Unassigned == -1

ZRes(op, arg, ret, node, closest_encloser, previous, searched) ==
  [op |-> op, arg |-> arg, ret |-> ret, node |-> node,
   closest_encloser |-> closest_encloser, previous |-> previous,
   searched |-> searched]

NoRes == ZRes("new", ApexName, "OK", NoNode, NoNode, Unassigned, FALSE)

\* zone->table when no hash table was created
NoTable == {NoNode}

\* the node count announced to dnslib_zone_new when a hash table is wanted
NodeCount == 3

\* the number of adjust passes run in succession (zone.adjusts counts the passes
\* run since the zone was made or a node was last added)
MaxAdjusts == 2

dnslib_zone_new(apex, node_count, apex_types) ==
  [apex |-> apex,
   tree |-> TREE_INSERT(Nil, apex),
   nsec3_nodes |-> Nil,
   node_count |-> node_count,
   table |-> IF node_count > 0 THEN {apex} ELSE NoTable,
   nsec3_params |-> [algorithm |-> 0],
   param_rdata |-> [algorithm |-> 1],
   left_over |-> FALSE,
   rrsets |-> [n \in NodeIds |-> IF n = apex THEN apex_types ELSE ZNodes[n].types],
   rdata |-> [n \in NodeIds |-> ZNodes[n].rdnames],
   deleg_point |-> {},
   non_auth |-> {},
   nsec3_node |-> [n \in NodeIds |-> NoNode],
   dname_node |-> [d \in NodeIds \cup RdataDnames |-> IF d \in NodeIds THEN d ELSE NoNode],
   adjusts |-> 0,
   res |-> NoRes]

\* dnslib_zone_check_node without the test of the owner
dnslib_zone_check_node_any(z, node) == "DNSLIB_EOK"

dnslib_zone_check_node(z, node) ==
  IF node = NoNode THEN "DNSLIB_EBADARG"
  ELSE IF ~dnslib_dname_is_subdomain(Owner(node), Owner(z.apex)) THEN "DNSLIB_EBADZONE"
  ELSE "DNSLIB_EOK"

\* inserted tells whether ck_insert_item stored the item or failed
dnslib_zone_add_node(z, node, inserted) ==
  LET ret == dnslib_zone_check_node(z, node)
      res(r) == ZRes("add_node", Owner(node), r, node, NoNode, Unassigned, FALSE)
  IN  IF ret # "DNSLIB_EOK" THEN [z EXCEPT !.res = res(ret)]
      ELSE IF z.table # NoTable /\ ~inserted
        THEN [z EXCEPT !.tree = TREE_INSERT(z.tree, node), !.adjusts = 0,
                       !.res = res("DNSLIB_EHASH")]
      ELSE [z EXCEPT !.tree = TREE_INSERT(z.tree, node), !.adjusts = 0,
                     !.table = IF z.table = NoTable THEN NoTable ELSE z.table \cup {node},
                     !.res = res("DNSLIB_EOK")]

dnslib_zone_add_nsec3_node(z, node) ==
  LET ret == dnslib_zone_check_node(z, node)
      res(r) == ZRes("add_nsec3_node", Owner(node), r, node, NoNode, Unassigned, FALSE)
  IN  IF ret # "DNSLIB_EOK" THEN [z EXCEPT !.res = res(ret)]
      ELSE [z EXCEPT !.nsec3_nodes = TREE_INSERT(z.nsec3_nodes, node), !.adjusts = 0,
                     !.res = res("DNSLIB_EOK")]

dnslib_zone_get_node(z, name) == TREE_FIND(z.tree, name)

dnslib_zone_get_nsec3_node(z, name) == TREE_FIND(z.nsec3_nodes, name)

dnslib_zone_find_node(z, name) == dnslib_zone_get_node(z, name)

\* the nodes held by a tree
TreeNodes(t) == {InOrder(t)[i] : i \in 1..Len(InOrder(t))}

(***************************************************************************)
(* The zone: searching.  A failed assert ends the process: the result      *)
(* carries ret "ABORT".                                                    *)
(***************************************************************************)
dnslib_node_rrset_count(z, n) == Cardinality(z.rrsets[n])

dnslib_zone_find_in_tree(z, name) ==
  LET r == TREE_FIND_LESS_EQUAL(z.tree, name, NoNode)
  IN  [exact_match |-> r.exact_match,
       node |-> r.found,
       abort |-> r.prev = NoNode /\ ~(r.exact_match /\ r.found # NoNode),
       previous |->
         IF r.prev = NoNode THEN dnslib_node_previous(z.tree, r.found)
         ELSE IF dnslib_node_rrset_count(z, r.prev) = 0
           THEN dnslib_node_previous(z.tree, r.prev)
         ELSE r.prev]

\* the loop going on while the owner has at least matched_labels labels
RECURSIVE ClosestEncloser_walks_on(_, _)
ClosestEncloser_walks_on(ce, matched_labels) ==
  IF ce = NoNode THEN NoNode
  ELSE IF matched_labels <= dnslib_dname_label_count(Owner(ce))
    THEN ClosestEncloser_walks_on(ZNodes[ce].parent, matched_labels)
  ELSE ce

\* the node the search gave taken as closest encloser, without the loop
ClosestEncloser_no_walk(ce, matched_labels) == ce

\* the loop of dnslib_zone_find_dname: up the parents while the owner has more
\* labels than matched_labels, which was computed once for the node the search
\* gave; NoNode when the chain ends first (the assert in the loop fails)
RECURSIVE ClosestEncloser(_, _)
ClosestEncloser(ce, matched_labels) ==
  IF ce = NoNode THEN NoNode
  ELSE IF matched_labels < dnslib_dname_label_count(Owner(ce))
    THEN ClosestEncloser(ZNodes[ce].parent, matched_labels)
  ELSE ce

\* dnslib_zone_find_dname without the test that name is in the zone
dnslib_zone_find_dname_unchecked(z, name) ==
  LET res(ret, node, ce, prev, searched) ==
        ZRes("find_dname", name, ret, node, ce, prev, searched)
      f == dnslib_zone_find_in_tree(z, name)
      ce == ClosestEncloser(f.node, dnslib_dname_matched_labels(Owner(f.node), name))
  IN  IF dnslib_dname_compare(name, Owner(z.apex)) = 0
        THEN res("DNSLIB_ZONE_NAME_FOUND", z.apex, z.apex, Unassigned, FALSE)
      ELSE IF f.abort THEN res("ABORT", NoNode, NoNode, Unassigned, TRUE)
      ELSE IF f.node = NoNode
        THEN res("DNSLIB_EBADZONE", f.node, f.node, f.previous, TRUE)
      ELSE IF f.exact_match
        THEN res("DNSLIB_ZONE_NAME_FOUND", f.node, f.node, f.previous, TRUE)
      ELSE IF ce = NoNode THEN res("ABORT", f.node, ce, f.previous, TRUE)
      ELSE res("DNSLIB_ZONE_NAME_NOT_FOUND", f.node, ce, f.previous, TRUE)

dnslib_zone_find_dname(z, name) ==
  LET res(ret, node, ce, prev, searched) ==
        ZRes("find_dname", name, ret, node, ce, prev, searched)
      f == dnslib_zone_find_in_tree(z, name)
      ce == ClosestEncloser(f.node, dnslib_dname_matched_labels(Owner(f.node), name))
  IN  IF dnslib_dname_compare(name, Owner(z.apex)) = 0
        THEN res("DNSLIB_ZONE_NAME_FOUND", z.apex, z.apex, Unassigned, FALSE)
      ELSE IF ~dnslib_dname_is_subdomain(name, Owner(z.apex))
        THEN res("DNSLIB_EBADZONE", NoNode, NoNode, Unassigned, FALSE)
      ELSE IF f.abort THEN res("ABORT", NoNode, NoNode, Unassigned, TRUE)
      ELSE IF f.node = NoNode
        THEN res("DNSLIB_EBADZONE", f.node, f.node, f.previous, TRUE)
      ELSE IF f.exact_match
        THEN res("DNSLIB_ZONE_NAME_FOUND", f.node, f.node, f.previous, TRUE)
      ELSE IF ce = NoNode THEN res("ABORT", f.node, ce, f.previous, TRUE)
      ELSE res("DNSLIB_ZONE_NAME_NOT_FOUND", f.node, ce, f.previous, TRUE)

\* ck_find_item: the items of the table stored under name
ck_find_item(table, name) == {n \in table : n # NoNode /\ Owner(n) = name}

\* dnslib_dname_left_chop until an item is found: the longest proper suffix of name
\* with an item; the empty name when there is none (the assert in the loop fails)
RECURSIVE ChopUntilFound(_, _)
ChopUntilFound(table, name) ==
  IF Len(name) <= 1 THEN <<>>
  ELSE IF ck_find_item(table, Tail(name)) # {} THEN Tail(name)
  ELSE ChopUntilFound(table, Tail(name))

\* the results dnslib_zone_find_dname_hash can give: one for each item that
\* ck_find_item may return
dnslib_zone_find_dname_hash(z, name) ==
  LET res(ret, node, ce, searched) ==
        ZRes("find_dname_hash", name, ret, node, ce, Unassigned, searched)
      chopped == ChopUntilFound(z.table, name)
  IN  IF dnslib_dname_compare(name, Owner(z.apex)) = 0
        THEN {res("DNSLIB_ZONE_NAME_FOUND", z.apex, z.apex, FALSE)}
      ELSE IF ~dnslib_dname_is_subdomain(name, Owner(z.apex))
        THEN {res("DNSLIB_EBADZONE", NoNode, NoNode, FALSE)}
      ELSE IF z.table = NoTable THEN {res("ABORT", NoNode, NoNode, TRUE)}
      ELSE IF ck_find_item(z.table, name) # {}
        THEN {res("DNSLIB_ZONE_NAME_FOUND", n, n, TRUE) : n \in ck_find_item(z.table, name)}
      ELSE IF chopped = <<>> THEN {res("ABORT", NoNode, NoNode, TRUE)}
      ELSE {res("DNSLIB_ZONE_NAME_NOT_FOUND", NoNode, n, TRUE) :
              n \in ck_find_item(z.table, chopped)}

(***************************************************************************)
(* The zone: the adjust pass (dnslib_zone_adjust_dnames).                  *)
(***************************************************************************)
\* dnslib_nsec3_params_from_wire: the fields of the rdata, of which the zone code
\* reads the algorithm
dnslib_nsec3_params_from_wire(rdata) == [algorithm |-> rdata.algorithm]

\* dnslib_zone_load_nsec3param that leaves the parameters when the apex has none
dnslib_zone_load_nsec3param_keeps(z) ==
  IF "NSEC3PARAM" \in z.rrsets[z.apex]
    THEN [z EXCEPT !.nsec3_params = dnslib_nsec3_params_from_wire(z.param_rdata)]
  ELSE z

\* dnslib_zone_load_nsec3param: the parameters of the apex's NSEC3PARAM, else zeroes
dnslib_zone_load_nsec3param(z) ==
  [z EXCEPT !.nsec3_params =
     IF "NSEC3PARAM" \in z.rrsets[z.apex] THEN dnslib_nsec3_params_from_wire(z.param_rdata)
     ELSE [algorithm |-> 0]]

dnslib_zone_nsec3_enabled(z) == z.nsec3_params.algorithm # 0

\* dnslib_zone_nsec3params: the parameters, or nothing (NULL)
dnslib_zone_nsec3params(z) ==
  IF dnslib_zone_nsec3_enabled(z) THEN {z.nsec3_params} ELSE {}

\* dnslib_zone_nsec3_name: the hash label put before the apex owner; the empty
\* name stands for DNSLIB_ENSEC3PAR
dnslib_zone_nsec3_name(z, name) ==
  IF ~dnslib_zone_nsec3_enabled(z) THEN <<>>
  ELSE <<Nsec3Hash(name)>> \o Owner(z.apex)

dnslib_zone_find_nsec3_for_name(z, name) ==
  LET nsec3_name == dnslib_zone_nsec3_name(z, name)
      r == TREE_FIND_LESS_EQUAL(z.nsec3_nodes, nsec3_name, NoNode)
  IN  IF nsec3_name = <<>>
        THEN [ret |-> "DNSLIB_ENSEC3PAR", nsec3_node |-> NoNode,
              nsec3_previous |-> NoNode, abort |-> FALSE]
      ELSE [ret |-> IF r.exact_match THEN "DNSLIB_ZONE_NAME_FOUND"
                    ELSE "DNSLIB_ZONE_NAME_NOT_FOUND",
            nsec3_node |-> r.found,
            nsec3_previous |-> IF r.prev = NoNode
                                 THEN dnslib_node_previous(z.nsec3_nodes, r.found)
                               ELSE r.prev,
            abort |-> r.prev = NoNode /\ ~(r.exact_match /\ r.found # NoNode)]

\* dnslib_zone_adjust_rdata_item: the item keeps the dname object it holds; that
\* object's node pointer is set from the owner of the zone node with its name
dnslib_zone_adjust_rdata_item(z, node, pos) ==
  LET dname == z.rdata[node][pos]
      n == dnslib_zone_find_node(z, DnameName(dname))
  IN  IF n = NoNode THEN z
      ELSE IF OwnerObj(n) = dname THEN z
      ELSE [z EXCEPT !.dname_node[dname] = z.dname_node[OwnerObj(n)]]

\* dnslib_zone_adjust_rrsets (with dnslib_zone_adjust_rdata_in_rrset): every
\* dname item of every RRSet and RRSIG of the node, from item pos on
RECURSIVE dnslib_zone_adjust_rrsets(_, _, _)
dnslib_zone_adjust_rrsets(z, node, pos) ==
  IF pos > Len(z.rdata[node]) THEN z
  ELSE dnslib_zone_adjust_rrsets(dnslib_zone_adjust_rdata_item(z, node, pos), node, pos + 1)

\* dnslib_zone_adjust_node that looks at the parent's non-authoritative flag only
dnslib_zone_adjust_node_parent_non_auth(z, node) ==
  LET z1 == dnslib_zone_adjust_rrsets(z, node, 1)
      parent == ZNodes[node].parent
      z2 == IF parent # NoNode /\ parent \in z1.non_auth
              THEN [z1 EXCEPT !.non_auth = @ \cup {node}]
            ELSE IF "NS" \in z1.rrsets[node] /\ node # z1.apex
              THEN [z1 EXCEPT !.deleg_point = @ \cup {node}]
            ELSE z1
      f == dnslib_zone_find_nsec3_for_name(z2, Owner(node))
  IN  [z2 EXCEPT !.nsec3_node[node] =
         IF f.ret # "DNSLIB_ZONE_NAME_FOUND" THEN NoNode ELSE f.nsec3_node]

\* dnslib_zone_adjust_node that keeps the node found when it is no exact match
dnslib_zone_adjust_node_keeps_link(z, node) ==
  LET z1 == dnslib_zone_adjust_rrsets(z, node, 1)
      parent == ZNodes[node].parent
      z2 == IF parent # NoNode /\ (parent \in z1.deleg_point \/ parent \in z1.non_auth)
              THEN [z1 EXCEPT !.non_auth = @ \cup {node}]
            ELSE IF "NS" \in z1.rrsets[node] /\ node # z1.apex
              THEN [z1 EXCEPT !.deleg_point = @ \cup {node}]
            ELSE z1
      f == dnslib_zone_find_nsec3_for_name(z2, Owner(node))
  IN  [z2 EXCEPT !.nsec3_node[node] = f.nsec3_node]

dnslib_zone_adjust_node(z, node) ==
  LET z1 == dnslib_zone_adjust_rrsets(z, node, 1)
      parent == ZNodes[node].parent
      z2 == IF parent # NoNode /\ (parent \in z1.deleg_point \/ parent \in z1.non_auth)
              THEN [z1 EXCEPT !.non_auth = @ \cup {node}]
            ELSE IF "NS" \in z1.rrsets[node] /\ node # z1.apex
              THEN [z1 EXCEPT !.deleg_point = @ \cup {node}]
            ELSE z1
      f == dnslib_zone_find_nsec3_for_name(z2, Owner(node))
  IN  [z2 EXCEPT !.nsec3_node[node] =
         IF f.ret # "DNSLIB_ZONE_NAME_FOUND" THEN NoNode ELSE f.nsec3_node]

\* dnslib_zone_adjust_nsec3_node: only the RRSIGs of an NSEC3 node hold names
dnslib_zone_adjust_nsec3_node(z, node) == dnslib_zone_adjust_rrsets(z, node, 1)

\* the nodes visited from the last to the first
RECURSIVE AdjustNodes_backward(_, _)
AdjustNodes_backward(z, q) ==
  IF q = <<>> THEN z
  ELSE AdjustNodes_backward(dnslib_zone_adjust_node(z, Last(q)), Front(q))

\* TREE_FORWARD_APPLY with dnslib_zone_adjust_node_in_tree over the nodes in q
RECURSIVE AdjustNodes(_, _)
AdjustNodes(z, q) ==
  IF q = <<>> THEN z ELSE AdjustNodes(dnslib_zone_adjust_node(z, Head(q)), Tail(q))

\* TREE_FORWARD_APPLY with dnslib_zone_adjust_nsec3_node_in_tree
RECURSIVE AdjustNsec3Nodes(_, _)
AdjustNsec3Nodes(z, q) ==
  IF q = <<>> THEN z
  ELSE AdjustNsec3Nodes(dnslib_zone_adjust_nsec3_node(z, Head(q)), Tail(q))

\* an assert of the pass fails: in dnslib_zone_find_nsec3_for_name for a node of
\* the tree, or in dnslib_zone_adjust_nsec3_node for an RRSet that is not NSEC3
AdjustAborts(z) ==
  LET z0 == dnslib_zone_load_nsec3param(z)
  IN  \/ \E n \in TreeNodes(z.tree) : dnslib_zone_find_nsec3_for_name(z0, Owner(n)).abort
      \/ \E n \in TreeNodes(z.nsec3_nodes) : z.rrsets[n] \ {"NSEC3"} # {}

dnslib_zone_adjust_dnames(z) ==
  LET z0 == dnslib_zone_load_nsec3param(z)
      z1 == AdjustNodes(z0, InOrder(z0.tree))
      z2 == AdjustNsec3Nodes(z1, InOrder(z1.nsec3_nodes))
      res(ret) == ZRes("adjust_dnames", ApexName, ret, NoNode, NoNode, Unassigned, TRUE)
  IN  IF AdjustAborts(z) THEN [z EXCEPT !.res = res("ABORT")]
      ELSE [z2 EXCEPT !.adjusts = @ + 1, !.res = res("OK")]

(***************************************************************************)
(* The zone specifications start from a zone made by dnslib_zone_new, with *)
(* or without a hash table and with or without NSEC3PARAM at the apex.     *)
(* SpecZone adds nodes and gets them; SpecAdjust adds nodes and runs the   *)
(* adjust pass; SpecFind adds nodes and searches names.                    *)
(***************************************************************************)
\* the names looked up
LookupNames ==
  {<<"z">>, <<"a", "z">>, <<"b", "a", "z">>, <<"c", "z">>, <<"b", "z">>,
   <<"c", "a", "z">>, <<"o">>}

InitZone ==
  /\ \E node_count \in {0, NodeCount},
        apex_types \in {{"SOA", "NS"}, {"SOA", "NS", "NSEC3PARAM"}} :
       zone = dnslib_zone_new(1, node_count, apex_types)
  /\ pkt = NoPkt /\ last = NoCall /\ alive = TRUE /\ rx = NoPkt /\ cx = <<>>
  /\ zl = <<>> /\ cl = <<>>

\* a call ends the process when an assert in it fails
ZoneCall(z) ==
  /\ zone' = z
  /\ alive' = (z.res.ret # "ABORT")

\* a node object is handed to the zone once
Offered(n) == n \notin TreeNodes(zone.tree) \cup TreeNodes(zone.nsec3_nodes)

\* ck_insert_item stores the item while the table has room for it
AddNode ==
  \E n \in PlainNodes :
    /\ Offered(n)
    /\ ZoneCall(dnslib_zone_add_node(zone, n, Cardinality(zone.table) < zone.node_count))

AddNsec3Node ==
  \E n \in Nsec3Nodes :
    /\ Offered(n)
    /\ ZoneCall(dnslib_zone_add_nsec3_node(zone, n))

AdjustDnames ==
  /\ zone.adjusts < MaxAdjusts
  /\ ZoneCall(dnslib_zone_adjust_dnames(zone))

GetNode ==
  \E name \in LookupNames :
    ZoneCall([zone EXCEPT !.res =
      ZRes("get_node", name, "OK", dnslib_zone_get_node(zone, name), NoNode,
           Unassigned, TRUE)])

FindDname ==
  \E name \in LookupNames :
    ZoneCall([zone EXCEPT !.res = dnslib_zone_find_dname(zone, name)])

FindDnameHash ==
  \E name \in LookupNames :
    \E res \in dnslib_zone_find_dname_hash(zone, name) :
      ZoneCall([zone EXCEPT !.res = res])

NextZone ==
  /\ alive
  /\ UNCHANGED <<pkt, last, rx, cx, zl, cl>>
  /\ \/ AddNode
     \/ AddNsec3Node
     \/ GetNode

SpecZone == InitZone /\ [][NextZone]_vars

NextAdjust ==
  /\ alive
  /\ UNCHANGED <<pkt, last, rx, cx, zl, cl>>
  /\ \/ AddNode
     \/ AddNsec3Node
     \/ AdjustDnames

SpecAdjust == InitZone /\ [][NextAdjust]_vars

\* the node objects handed to dnslib_zone_add_nsec3_node: the NSEC3 nodes and two
\* nodes of the zone that hold other RRSets
Nsec3Offers == Nsec3Nodes \cup {4, 5}

AddToNsec3Tree ==
  \E n \in Nsec3Offers :
    /\ Offered(n)
    /\ ZoneCall(dnslib_zone_add_nsec3_node(zone, n))

NextNsec3 ==
  /\ alive
  /\ UNCHANGED <<pkt, last, rx, cx, zl, cl>>
  /\ \/ AddToNsec3Tree
     \/ AdjustDnames

SpecNsec3 == InitZone /\ [][NextNsec3]_vars

NextFind ==
  /\ alive
  /\ UNCHANGED <<pkt, last, rx, cx, zl, cl>>
  /\ \/ AddNode
     \/ FindDname
     \/ FindDnameHash

SpecFind == InitZone /\ [][NextFind]_vars

\* the nodes of a chain of three levels below the apex, a sibling and a second
\* node of the name a.z
ChainNodes == {2, 3, 4, 5, 11}

AddChainNode ==
  \E n \in ChainNodes :
    /\ Offered(n)
    /\ ZoneCall(dnslib_zone_add_node(zone, n, Cardinality(zone.table) < zone.node_count))

NextChain ==
  /\ UNCHANGED <<pkt, last, rx, cx, zl, cl>>
  /\ alive
  /\ \/ AddChainNode
     \/ AdjustDnames

SpecChain == InitZone /\ [][NextChain]_vars

\* the algorithm field of the apex's NSEC3PARAM: none (reserved), or SHA-1
Nsec3Algorithms == {0, 1}

InitParams ==
  /\ \E apex_types \in {{"SOA", "NS"}, {"SOA", "NS", "NSEC3PARAM"}}, alg \in Nsec3Algorithms :
       /\ "NSEC3PARAM" \notin apex_types => alg = 1
       /\ zone = [dnslib_zone_new(1, 0, apex_types) EXCEPT !.param_rdata.algorithm = alg]
  /\ pkt = NoPkt /\ last = NoCall /\ alive = TRUE /\ rx = NoPkt /\ cx = <<>>
  /\ zl = <<>> /\ cl = <<>>

\* the nodes with an NSEC3 node in the pool, and one without
ParamNodes == {2, 4}

AddParamNode ==
  \E n \in ParamNodes :
    /\ Offered(n)
    /\ ZoneCall(dnslib_zone_add_node(zone, n, FALSE))

\* the NSEC3PARAM RRSet is taken from the apex (dnslib_node_remove_rrset); left_over
\* notes that parameters and NSEC3 links of an earlier pass are in place then
RemoveNsec3Param ==
  /\ "NSEC3PARAM" \in zone.rrsets[zone.apex]
  /\ ZoneCall([zone EXCEPT
       !.rrsets[zone.apex] = @ \ {"NSEC3PARAM"},
       !.left_over = dnslib_zone_nsec3_enabled(zone)
                       /\ \E n \in TreeNodes(zone.tree) : zone.nsec3_node[n] # NoNode,
       !.adjusts = 0,
       !.res = ZRes("remove_rrset", ApexName, "OK", zone.apex, NoNode, Unassigned, FALSE)])

NextParams ==
  /\ UNCHANGED <<pkt, last, rx, cx, zl, cl>>
  /\ alive
  /\ \/ AddParamNode
     \/ AddNsec3Node
     \/ AdjustDnames
     \/ RemoveNsec3Param

SpecParams == InitParams /\ [][NextParams]_vars

(***************************************************************************)
(* The zone loader: post_load, called with freshly loaded contents for a   *)
(* zone that may hold current contents.  The input of a call says what the *)
(* configuration is and what the functions called return.                  *)
(***************************************************************************)
\* SOA serials range over 0..MaxSerial
MaxSerial == 2

\* zone->contents is NULL, is new_contents itself, or is another version
Currents == {"none", "same", "other"}

\* which allocation fails: knot_changesets_create, zone_change_prepare before
\* signing, zone_change_prepare before the diff
AllocFails == {"none", "create", "prepare_sign", "prepare_diff"}

\* knot_dnssec_zone_sign with KNOT_SOA_SERIAL_UPDATE: fails, or signs and leaves
\* the zone as it is, or signs, changes the zone and raises its serial
SignResults == {"failed", "unchanged", "changed"}

LoadInputs ==
  {in \in [dnssec_enable : BOOLEAN, sign : SignResults, build_diffs : BOOLEAN,
           current : Currents, old_serial : 0..MaxSerial, new_serial : 0..MaxSerial,
           diff_fails : BOOLEAN, commit_first : BOOLEAN, commit_last : BOOLEAN,
           store_ok : BOOLEAN, alloc_fail : AllocFails] :
     /\ in.dnssec_enable \/ in.sign = "unchanged"
     /\ in.current = "other" \/ in.old_serial = 0}

\* the serial of the new contents after signing
SignedSerial(in) ==
  IF in.dnssec_enable /\ in.sign = "changed" THEN in.new_serial + 1 ELSE in.new_serial

\* zone_contents_create_diff: no difference is made unless the serial advances
zone_contents_create_diff(in) ==
  IF SignedSerial(in) <= in.old_serial THEN "KNOT_ENODIFF"
  ELSE IF in.diff_fails THEN "KNOT_ERROR"
  ELSE "KNOT_EOK"

\* what a call of post_load did: its return value, whether the commit before the
\* diff and the commit of the current change were made with success, whether
\* zone_change_store was called for the journal, and what the diff returned
Loaded(ret, precommitted, committed, stored, diff) ==
  [ret |-> ret, precommitted |-> precommitted, committed |-> committed,
   stored |-> stored, diff |-> diff]

NotLoaded == Loaded("", FALSE, FALSE, FALSE, "")

\* the part of post_load from "Now commit current change" on, with the ret of the
\* function's own scope
post_load_commit(in, ret, precommitted, diff) ==
  IF ret # "KNOT_EOK" THEN Loaded(ret, precommitted, FALSE, FALSE, diff)
  ELSE IF ~in.commit_last THEN Loaded("KNOT_ERROR", precommitted, FALSE, FALSE, diff)
  ELSE Loaded(IF in.store_ok THEN "KNOT_EOK" ELSE "KNOT_ERROR", precommitted, TRUE,
              TRUE, diff)

\* post_load: the block that calculates the diff declares a ret of its own, which
\* takes the result of zone_change_commit and of zone_contents_create_diff; the ret
\* tested afterwards is the outer one
post_load(in) ==
  LET ret == IF in.dnssec_enable /\ in.sign = "failed" THEN "KNOT_ERROR" ELSE "KNOT_EOK"
      contents_changed == in.current = "other"
  IN  IF in.alloc_fail = "create" THEN Loaded("KNOT_ENOMEM", FALSE, FALSE, FALSE, "")
      ELSE IF in.dnssec_enable /\ in.alloc_fail = "prepare_sign"
        THEN Loaded("KNOT_ENOMEM", FALSE, FALSE, FALSE, "")
      ELSE IF ret = "KNOT_EOK" /\ contents_changed /\ in.build_diffs
        THEN IF ~in.commit_first THEN Loaded("KNOT_ERROR", FALSE, FALSE, FALSE, "")
             ELSE IF in.alloc_fail = "prepare_diff"
               THEN Loaded("KNOT_ENOMEM", TRUE, FALSE, FALSE, "")
             ELSE post_load_commit(in, ret, TRUE, zone_contents_create_diff(in))
      ELSE post_load_commit(in, ret, FALSE, "")

InitLoad ==
  /\ zl \in [in : LoadInputs, out : {NotLoaded}]
  /\ pkt = NoPkt /\ last = NoCall /\ alive = TRUE /\ rx = NoPkt /\ cx = <<>>
  /\ zone = <<>> /\ cl = <<>>

PostLoad ==
  /\ zl.out = NotLoaded
  /\ zl' = [zl EXCEPT !.out = post_load(zl.in)]

NextLoad ==
  /\ UNCHANGED <<pkt, last, alive, rx, cx, zone, cl>>
  /\ PostLoad

SpecLoad == InitLoad /\ [][NextLoad]_vars

(***************************************************************************)
(* apply_journal.  The journal lookup (journal_load_changesets) gives a    *)
(* status and a list of changesets; applying a changeset raises the serial *)
(* of the contents by one.                                                 *)
(***************************************************************************)
\* the changesets one lookup can give
MaxChangesets == 2

\* journal_load_changesets: a failed lookup gives no changesets
JournalInputs ==
  {in \in [journal_exists : BOOLEAN, empty : BOOLEAN, serial : 0..MaxSerial,
           alloc_ok : BOOLEAN,
           load_ret : {"KNOT_EOK", "KNOT_ERANGE", "KNOT_ENOENT", "KNOT_ERROR"},
           sets : 0..MaxChangesets, apply_ok : BOOLEAN] :
     in.load_ret \in {"KNOT_ENOENT", "KNOT_ERROR"} => in.sets = 0}

\* what a call of apply_journal did: its return value, whether the journal was
\* looked up, whether xfrin_apply_changesets_directly was called, and the serial
\* of the contents afterwards
Journaled(ret, looked_up, applied, serial) ==
  [ret |-> ret, looked_up |-> looked_up, applied |-> applied, serial |-> serial]

NotJournaled == Journaled("", FALSE, FALSE, 0)

apply_journal(in) ==
  IF ~in.journal_exists \/ in.empty THEN Journaled("KNOT_EOK", FALSE, FALSE, in.serial)
  ELSE IF ~in.alloc_ok THEN Journaled("KNOT_ERROR", FALSE, FALSE, in.serial)
  ELSE IF (in.load_ret # "KNOT_EOK" /\ in.load_ret # "KNOT_ERANGE") \/ in.sets = 0
    THEN Journaled(IF in.load_ret = "KNOT_ENOENT" THEN "KNOT_EOK" ELSE in.load_ret,
                   TRUE, FALSE, in.serial)
  ELSE IF in.apply_ok THEN Journaled("KNOT_EOK", TRUE, TRUE, in.serial + in.sets)
  ELSE Journaled("KNOT_ERROR", TRUE, TRUE, in.serial)

InitJournal ==
  /\ zl \in [in : JournalInputs, out : {NotJournaled}]
  /\ pkt = NoPkt /\ last = NoCall /\ alive = TRUE /\ rx = NoPkt /\ cx = <<>>
  /\ zone = <<>> /\ cl = <<>>

ApplyJournalCall ==
  /\ zl.out = NotJournaled
  /\ zl' = [zl EXCEPT !.out = apply_journal(zl.in)]

NextJournal ==
  /\ UNCHANGED <<pkt, last, alive, rx, cx, zone, cl>>
  /\ ApplyJournalCall

SpecJournal == InitJournal /\ [][NextJournal]_vars

(***************************************************************************)
(* Publishing zone contents.  The writer loads fresh contents, brings them *)
(* up to date with apply_journal, runs post_load on them and, when that    *)
(* returned KNOT_EOK, publishes them by switching zone->contents; the old  *)
(* contents are freed once no earlier reader holds them.  Readers take     *)
(* zone->contents and read it.  A change of contents (the application of   *)
(* changesets, the signing, zone_change_commit) takes two steps: between   *)
(* them the contents are dirty, that is partially changed.  The data of    *)
(* contents is the number of changes made to them.                         *)
(***************************************************************************)
\* the contents loaded during one run
MaxVersions == 3

\* the reader threads
MaxReaders == 2

Versions == 1..MaxVersions

Readers == 1..MaxReaders

\* zone->contents == NULL, and a reader that holds no contents
NoContents == 0

Conf == [dnssec_enable : BOOLEAN, build_diffs : BOOLEAN, journal : BOOLEAN]

IdleWriter == [pc |-> "idle", new |-> NoContents, old |-> NoContents,
               conf |-> [dnssec_enable |-> FALSE, build_diffs |-> FALSE, journal |-> FALSE]]

InitPublish ==
  /\ zl = [contents |-> NoContents,
           ver |-> [v \in Versions |-> [state |-> "unused", data |-> 0, dirty |-> FALSE]],
           w |-> IdleWriter,
           rd |-> [r \in Readers |-> [ver |-> NoContents, data |-> 0, torn |-> FALSE]],
           journal |-> 0,
           published |-> <<>>]
  /\ pkt = NoPkt /\ last = NoCall /\ alive = TRUE /\ rx = NoPkt /\ cx = <<>>
  /\ zone = <<>> /\ cl = <<>>

\* the contents the steps of apply_journal and post_load are given to change taken
\* from zone->contents
WriterTarget_published(z) == z.contents

\* the contents the steps of apply_journal and post_load are given to change:
\* their parameter contents / new_contents
WriterTarget(z) == z.w.new

\* a change of the writer's target begins, and ends
BeginChange(z, pc) ==
  [z EXCEPT !.ver[WriterTarget(z)].dirty = TRUE, !.w.pc = pc]

EndChange(z, pc) ==
  [z EXCEPT !.ver[WriterTarget(z)].dirty = FALSE,
            !.ver[WriterTarget(z)].data = @ + 1,
            !.w.pc = pc]

\* the caller gives up the loaded contents after an error
Discard(z) ==
  [z EXCEPT !.ver[z.w.new].state = "freed", !.ver[z.w.new].dirty = FALSE, !.w = IdleWriter]

\* zone_load_contents: fresh contents, not reachable through zone->contents
Load ==
  /\ zl.w.pc = "idle"
  /\ \E v \in Versions, conf \in Conf :
       /\ zl.ver[v].state = "unused"
       /\ \A u \in Versions : u < v => zl.ver[u].state # "unused"
       /\ zl' = [zl EXCEPT !.ver[v].state = "built",
                           !.w = [pc |-> "loaded", new |-> v, old |-> NoContents,
                                  conf |-> conf]]

\* apply_journal: nothing to do without a journal or pending changesets, else
\* xfrin_apply_changesets_directly changes the contents
ApplyJournal ==
  /\ zl.w.pc = "loaded"
  /\ zl' = IF zl.w.conf.journal THEN BeginChange(zl, "applying")
           ELSE [zl EXCEPT !.w.pc = "post"]

ApplyJournalDone ==
  /\ zl.w.pc = "applying"
  /\ \E ok \in BOOLEAN : zl' = IF ok THEN EndChange(zl, "post") ELSE Discard(zl)

\* post_load: knot_dnssec_zone_sign when DNSSEC is enabled
Sign ==
  /\ zl.w.pc = "post"
  /\ zl' = IF zl.w.conf.dnssec_enable THEN BeginChange(zl, "signing")
           ELSE [zl EXCEPT !.w.pc = "diff"]

SignDone ==
  /\ zl.w.pc = "signing"
  /\ \E ok \in BOOLEAN : zl' = IF ok THEN EndChange(zl, "diff") ELSE Discard(zl)

\* post_load: with other contents in place and diffs configured, the commit of
\* the existing change, then zone_contents_create_diff, which only reads
Diff ==
  /\ zl.w.pc = "diff"
  /\ zl' = IF zl.contents # NoContents /\ zl.w.new # zl.contents /\ zl.w.conf.build_diffs
             THEN BeginChange(zl, "precommit")
           ELSE [zl EXCEPT !.w.pc = "commit"]

DiffDone ==
  /\ zl.w.pc = "precommit"
  /\ \E ok \in BOOLEAN : zl' = IF ok THEN EndChange(zl, "commit") ELSE Discard(zl)

\* post_load: zone_change_commit of the current change
Commit ==
  /\ zl.w.pc = "commit"
  /\ zl' = BeginChange(zl, "committing")

CommitDone ==
  /\ zl.w.pc = "committing"
  /\ \E ok \in BOOLEAN : zl' = IF ok THEN EndChange(zl, "store") ELSE Discard(zl)

\* post_load: zone_change_store writes the journal; post_load returns its result
Store ==
  /\ zl.w.pc = "store"
  /\ \E ok \in BOOLEAN :
       zl' = IF ok THEN [zl EXCEPT !.journal = @ + 1, !.w.pc = "switch"] ELSE Discard(zl)

\* a switch that only fills an empty zone: contents in place stay published
zone_switch_contents_first(z) ==
  [z EXCEPT !.contents = IF z.contents = NoContents THEN z.w.new ELSE @,
            !.w.old = NoContents]

\* zone_switch_contents: the new contents are published, the old ones returned
zone_switch_contents(z) ==
  [z EXCEPT !.contents = z.w.new, !.w.old = z.contents]

\* the caller of post_load after KNOT_EOK: publish
Switch ==
  /\ zl.w.pc = "switch"
  /\ zl' = [zone_switch_contents(zl) EXCEPT
              !.w.pc = "sync",
              !.published = Append(@, [ver |-> zl.w.new, data |-> zl.ver[zl.w.new].data])]

\* synchronize_rcu and the freeing of the old contents: no reader holds them
Sync ==
  /\ zl.w.pc = "sync"
  /\ \A r \in Readers : zl.rd[r].ver = NoContents \/ zl.rd[r].ver # zl.w.old
  /\ zl' = [zl EXCEPT !.ver = IF zl.w.old = NoContents THEN @
                               ELSE [@ EXCEPT ![zl.w.old].state = "freed"],
                      !.w = IdleWriter]

\* a reader takes zone->contents (rcu_dereference) and sees its data
ReaderStart ==
  \E r \in Readers :
    /\ zl.rd[r].ver = NoContents
    /\ zl.contents # NoContents
    /\ zl' = [zl EXCEPT !.rd[r] = [ver |-> zl.contents,
                                   data |-> zl.ver[zl.contents].data,
                                   torn |-> zl.ver[zl.contents].dirty]]

\* a reader reads the contents it holds again
ReaderRead ==
  \E r \in Readers :
    /\ zl.rd[r].ver # NoContents
    /\ zl' = [zl EXCEPT !.rd[r].torn =
                 \/ @
                 \/ zl.ver[zl.rd[r].ver].dirty
                 \/ zl.ver[zl.rd[r].ver].data # zl.rd[r].data
                 \/ zl.ver[zl.rd[r].ver].state # "built"]

ReaderEnd ==
  \E r \in Readers :
    /\ zl.rd[r].ver # NoContents
    /\ zl' = [zl EXCEPT !.rd[r].ver = NoContents]

NextPublish ==
  /\ UNCHANGED <<pkt, last, alive, rx, cx, zone, cl>>
  /\ \/ Load
     \/ ApplyJournal
     \/ ApplyJournalDone
     \/ Sign
     \/ SignDone
     \/ Diff
     \/ DiffDone
     \/ Commit
     \/ CommitDone
     \/ Store
     \/ Switch
     \/ Sync
     \/ ReaderStart
     \/ ReaderRead
     \/ ReaderEnd

SpecPublish == InitPublish /\ [][NextPublish]_vars

(***************************************************************************)
(* Properties of the writer (SpecBuild)                                    *)
(***************************************************************************)
WireCount(p, s) == Cardinality({i \in 1..Len(p.wire) : p.wire[i].sec = s})

\* C1: the header ANCOUNT, NSCOUNT and ARCOUNT each equal the number of RRs that were
\* serialised into the wire while that section was current, and the RRs lie on the
\* wire in section order; puts that add nothing change neither.
C1_CountsMatchWire ==
  /\ \A s \in Sections : pkt_rr_wirecount(pkt, s) = WireCount(pkt, s)
  /\ \A i, j \in 1..Len(pkt.wire) : i < j => pkt.wire[i].sec <= pkt.wire[j].sec

\* a response with RRs in two sections and an OPT, on which a put has just failed
C1_Witness ==
  /\ alive
  /\ last.op = "put" /\ last.ret = "KNOT_ESPACE"
  /\ pkt.hdr.qd = 1
  /\ pkt.hdr.an = 1 /\ pkt.hdr.ar = 1
  /\ \E i \in 1..Len(pkt.wire) : pkt.wire[i].type = "OPT"

\* C2: a knot_pkt_put call leaves TC set exactly when it was set before or the call
\* failed with KNOT_ESPACE without the NOTRUNC flag.
C2_TcIffNoSpace ==
  [][last'.op = "put" =>
       (pkt'.hdr.tc <=> (pkt.hdr.tc \/ (last'.ret = "KNOT_ESPACE"
                                          /\ "NOTRUNC" \notin last'.flags)))]_vars

\* TC has just been set by a put that ran out of space behind a stored RR
C2_Witness ==
  /\ alive
  /\ last.op = "put" /\ last.ret = "KNOT_ESPACE" /\ "NOTRUNC" \notin last.flags
  /\ pkt.hdr.tc
  /\ pkt.hdr.ns >= 1

\* the RRSet object a put was called with
PoolRR(id) == IF id = 0 THEN NullRR ELSE CHOOSE r \in RRSetPool : r.id = id

\* the RRSet does not fit into what pkt_remaining leaves, and the put gets as far as
\* serialising it
CannotFit(p, id, flags) ==
  /\ id # 0
  /\ ~("CHECKDUP" \in flags /\ pkt_contains(p, PoolRR(id)) # 0)
  /\ Len(PoolRR(id).rd) * RRWireLen(PoolRR(id).type) > pkt_remaining(p)

\* C3 as stated: a put that cannot fit the RRSet, without NOTRUNC, drops it and
\* returns KNOT_EOK.
C3_Original ==
  [][(last'.op = "put" /\ last'.ret # "ABORT"
        /\ CannotFit(pkt, last'.rr, last'.flags) /\ "NOTRUNC" \notin last'.flags)
       => (last'.ret = "KNOT_EOK" /\ pkt'.rr = pkt.rr /\ pkt'.wire = pkt.wire)]_vars

\* C3 as amended: such a put drops the RRSet, sets TC, changes nothing else of the
\* packet and returns KNOT_ESPACE to the caller.
C3_NoSpaceReturnsESPACE ==
  [][(last'.op = "put" /\ last'.ret # "ABORT"
        /\ CannotFit(pkt, last'.rr, last'.flags) /\ "NOTRUNC" \notin last'.flags)
       => (last'.ret = "KNOT_ESPACE" /\ pkt' = [pkt EXCEPT !.hdr.tc = TRUE])]_vars

\* the two-RR RRSet has just been refused for lack of space
C3_Witness ==
  /\ alive
  /\ last.op = "put" /\ last.rr = 3 /\ "NOTRUNC" \notin last.flags
  /\ last.ret = "KNOT_ESPACE"
  /\ pkt.hdr.an >= 1
  /\ pkt_remaining(pkt) < 2 * RRWireLen("NS")

\* C9: every OPT RR on the wire was written, and is counted, in ADDITIONAL.
C9_OptInAdditional ==
  \A i \in 1..Len(pkt.wire) :
    pkt.wire[i].type = "OPT" => pkt.wire[i].sec = KNOT_ADDITIONAL

(***************************************************************************)
(* Properties of the parser (SpecParse)                                    *)
(***************************************************************************)
Parsed(ret) == last.op = "parse" /\ last.ret = ret

TypeCount(p, type) == Cardinality({i \in 1..Len(p.wire) : p.wire[i].type = type})

\* C5: a parse succeeds only if the message carries no TSIG RR or its TSIG RR is the
\* last RR of the message and lies in ADDITIONAL.
C5_TsigLastOrMalformed ==
  Parsed("KNOT_EOK") =>
    \A i \in 1..Len(pkt.wire) :
      pkt.wire[i].type = "TSIG" => (i = Len(pkt.wire) /\ pkt.hdr.ar > 0)

\* C6: a successfully parsed message carries at most one OPT RR.
C6_AtMostOneOpt ==
  Parsed("KNOT_EOK") => TypeCount(pkt, "OPT") <= 1

\* where the RRs announced by the header end in the buffer
AnnouncedEnd(p) ==
  KNOT_WIRE_HEADER_SIZE + (IF p.hdr.qd = 1 THEN p.qname_size + 4 ELSE 0)
    + SumLen(SubSeq(p.wire, 1, p.hdr.an + p.hdr.ns + p.hdr.ar))

\* the question and exactly the announced RRs have been parsed
AllAnnouncedParsed(p) ==
  /\ p.hdr.qd <= 1
  /\ p.hdr.an + p.hdr.ns + p.hdr.ar <= Len(p.wire)
  /\ p.parsed = AnnouncedEnd(p)

\* C7: when the question and the announced RRs are parsed and bytes remain, the parse
\* returns KNOT_EMALF.
C7_TrailingGarbage ==
  (last.op = "parse" /\ last.ret # "ABORT"
     /\ AllAnnouncedParsed(pkt) /\ pkt.parsed < pkt.size)
    => last.ret = "KNOT_EMALF"

\* a message without TSIG whose announced RRs are followed by a whole further RR
C7_Witness ==
  /\ Parsed("KNOT_EMALF")
  /\ AllAnnouncedParsed(pkt)
  /\ pkt.hdr.an = 1 /\ pkt.hdr.ar = 1
  /\ Len(pkt.wire) = 3
  /\ pkt.tail = 0
  /\ TypeCount(pkt, "TSIG") = 0
  /\ pkt.parsed < pkt.size

(***************************************************************************)
(* Properties of name compression (SpecDname)                              *)
(***************************************************************************)
\* C10: every offset handed to a compression pointer is at most 2^14 - 1, and the
\* suffix hint never lies at or above that limit.
C10_PointerCap ==
  /\ cx.ptr <= KNOT_WIRE_PTR_MAX
  /\ cx.suffix.pos < KNOT_WIRE_PTR_MAX

(***************************************************************************)
(* Properties of the section order (SpecSection)                           *)
(***************************************************************************)
\* C4: knot_pkt_begin(s) returns only when s >= current and then current is s; no
\* begin, put or parse call (nor put_question) moves current backwards; the question
\* is written only into a header-only packet that stores no RRSet.
C4_SectionOnlyAdvances ==
  [][ /\ (last'.op = "begin" /\ last'.ret = "KNOT_EOK")
           => (last'.sec >= pkt.current /\ pkt'.current = last'.sec)
      /\ (last'.op \in {"begin", "put", "parse", "put_question"})
           => pkt'.current >= pkt.current
      /\ (last'.op = "put_question" /\ last'.ret = "KNOT_EOK")
           => (pkt.size = KNOT_WIRE_HEADER_SIZE /\ rrset_count(pkt) = 0)
    ]_vars

\* a begin that was accepted after RRSets had been put, and reached the last section
C4_Witness ==
  /\ last.op = "begin" /\ last.ret = "KNOT_EOK" /\ last.sec = KNOT_ADDITIONAL
  /\ pkt.current = KNOT_ADDITIONAL
  /\ pkt.hdr.an >= 1

(***************************************************************************)
(* Properties of the round trip (SpecRT)                                   *)
(***************************************************************************)
Question(p) == IF p.qname_size > 0 THEN p.q ELSE NoQ

\* an RRSet as the round trip compares it: names are compared caselessly
RRSetValue(r) ==
  [owner |-> knot_dname_to_lower(r.owner), type |-> r.type, rclass |-> r.rclass,
   ttl |-> r.ttl, rd |-> r.rd]

SelectSeq2(q, Test(_)) ==
  LET F[i \in 0..Len(q)] ==
        IF i = 0 THEN <<>> ELSE IF Test(q[i]) THEN Append(F[i - 1], q[i]) ELSE F[i - 1]
  IN  F[Len(q)]

\* the RRSets put while s was the current section, in the order put
BuiltSection(p, s) ==
  LET InS(e) == e.sec = s
      es == SelectSeq2(p.rr, InS)
  IN  [i \in 1..Len(es) |-> RRSetValue(es[i].rrset)]

\* knot_pkt_section(pkt, s): the RRSets rr[start .. start + count)
ParsedSection(p, s) ==
  [i \in 1..p.sections[s].count |-> RRSetValue(p.rr[p.sections[s].start + i].rrset)]

\* a question, nothing dropped for lack of space, every RRSet whole within its section
WellFormed(p) ==
  /\ p.hdr.qd = 1
  /\ ~p.hdr.tc
  /\ p.size <= p.max_size
  /\ \A i, j \in 1..Len(p.rr) :
       (i # j /\ p.rr[i].sec = p.rr[j].sec)
         => ~rrset_header_equal(RRSetValue(p.rr[i].rrset), RRSetValue(p.rr[j].rrset))

\* C8: parsing the wire of a well-formed built packet succeeds and yields the same
\* question and, section by section, the same RRSets in the same order.
C8_RoundTrip ==
  (last.op = "receive" /\ last.flags = {} /\ WellFormed(pkt))
    => /\ last.ret = "KNOT_EOK"
       /\ Question(rx) = Question(pkt)
       /\ \A s \in Sections : ParsedSection(rx, s) = BuiltSection(pkt, s)

(***************************************************************************)
(* Properties of the classification (SpecType)                             *)
(***************************************************************************)
\* the type the classification is to yield for opcode QUERY
QueryTypeOf(c) ==
  IF c.qname_size = 0 \/ c.qtype = 0 THEN "INVALID"
  ELSE IF c.qtype = 252 THEN "AXFR"
  ELSE IF c.qtype = 251 THEN "IXFR"
  ELSE "NORMAL"

\* C11: for opcode QUERY the type is AXFR iff QTYPE = 252, IXFR iff QTYPE = 251,
\* INVALID iff QTYPE = 0 or there is no question, NORMAL for every other QTYPE; NOTIFY
\* and UPDATE yield their type, any other opcode INVALID; the response flag is set
\* iff QR = 1.
C11_TypeOfQuery ==
  cl.result # NotClassified =>
    /\ cl.result.response = (cl.qr = 1)
    /\ cl.result.type = IF cl.opcode = 0 THEN QueryTypeOf(cl)
                        ELSE IF cl.opcode = 4 THEN "NOTIFY"
                        ELSE IF cl.opcode = 5 THEN "UPDATE"
                        ELSE "INVALID"

(***************************************************************************)
(* Properties of the zone (SpecZone, SpecAdjust, SpecFind)                 *)
(***************************************************************************)
InZone(z, n) == dnslib_dname_is_subdomain(Owner(n), Owner(z.apex))

AllInZone(z) == \A n \in TreeNodes(z.tree) \cup TreeNodes(z.nsec3_nodes) : InZone(z, n)

IsAdd(z) == z.res.op \in {"add_node", "add_nsec3_node"}

\* C12: after dnslib_zone_new and any adds, the owner of every node of the plain
\* tree and of the NSEC3 tree is a subdomain of the apex owner; an add of a node
\* whose owner is outside the zone returns DNSLIB_EBADZONE and leaves both trees
\* as they were.
C12_NodesInZone ==
  /\ AllInZone(zone)
  /\ [][/\ AllInZone(zone')
        /\ (IsAdd(zone') /\ ~InZone(zone, zone'.res.node))
             => /\ zone'.res.ret = "DNSLIB_EBADZONE"
                /\ zone'.tree = zone.tree
                /\ zone'.nsec3_nodes = zone.nsec3_nodes]_vars

\* nodes were added to both trees and the last add, of a node outside, was refused
C12_Witness ==
  /\ IsAdd(zone) /\ ~InZone(zone, zone.res.node)
  /\ zone.res.ret = "DNSLIB_EBADZONE"
  /\ Cardinality(TreeNodes(zone.tree)) >= 3
  /\ TreeNodes(zone.nsec3_nodes) # {}

\* C13: in every state reached by adds, dnslib_zone_get_node called with the apex
\* owner returns zone->apex itself.
C13_ApexFound ==
  (zone.res.op = "get_node" /\ zone.res.arg = Owner(zone.apex))
    => zone.res.node = zone.apex

\* C14: the plain tree never holds two nodes with canonically equal owners.
C14_NoDuplicateOwners ==
  \A n1, n2 \in TreeNodes(zone.tree) :
    dnslib_node_compare(n1, n2) = 0 => n1 = n2

Adjusted(z) == z.res.op = "adjust_dnames" /\ z.res.ret = "OK"

\* the nodes of the plain tree that own name
Owning(z, name) == {m \in TreeNodes(z.tree) : Owner(m) = name}

\* C15: after the adjust pass every dname item in the rdata of a node whose name
\* is the owner of a node of the plain tree is that node's own owner object, not
\* another dname object with an equal name.
C15_RdataInterned ==
  Adjusted(zone) =>
    \A n \in TreeNodes(zone.tree) \cup TreeNodes(zone.nsec3_nodes) :
      \A pos \in 1..Len(zone.rdata[n]) :
        Owning(zone, DnameName(zone.rdata[n][pos])) # {}
          => \E m \in Owning(zone, DnameName(zone.rdata[n][pos])) :
               zone.rdata[n][pos] = OwnerObj(m)

\* the name of the NSEC3 node of node n
Nsec3NameOf(z, n) == <<Nsec3Hash(Owner(n))>> \o Owner(z.apex)

Nsec3Adjusted(z) == Adjusted(z) /\ dnslib_zone_nsec3_enabled(z)

AdjustedPart(z) ==
  <<z.deleg_point, z.non_auth, z.nsec3_node, z.nsec3_params, z.rdata, z.dname_node>>

\* C17: a second adjust pass run right after a first one, with no change of the
\* zone in between, leaves the flags, the NSEC3 links, the NSEC3 parameters and
\* the rdata name references as the first pass left them.
C17_AdjustIdempotent ==
  [][(Adjusted(zone) /\ Adjusted(zone') /\ zone'.adjusts = zone.adjusts + 1)
       => AdjustedPart(zone') = AdjustedPart(zone)]_vars

\* two passes were run in succession on a zone with a delegation, a node below it
\* and an NSEC3 link
C17_Witness ==
  /\ Adjusted(zone) /\ zone.adjusts = 2
  /\ zone.deleg_point # {} /\ zone.non_auth # {}
  /\ \E n \in TreeNodes(zone.tree) : zone.nsec3_node[n] # NoNode

\* a is b or ends with b on a label boundary
IsSuffix(b, a) == Len(b) <= Len(a) /\ SubSeq(a, Len(a) - Len(b) + 1, Len(a)) = b

\* the owners of the nodes of the plain tree that are proper ancestors of name
AncestorsIn(z, name) ==
  {Owner(m) : m \in {k \in TreeNodes(z.tree) : IsSuffix(Owner(k), name) /\ Owner(k) # name}}

Longest(names) == CHOOSE a \in names : \A b \in names : Len(b) <= Len(a)

\* every node's parent is a node of the tree that owns the node's closest
\* ancestor present in the tree
ParentsClosest(z) ==
  \A n \in TreeNodes(z.tree) :
    Owner(n) # Owner(z.apex)
      => /\ ZNodes[n].parent \in TreeNodes(z.tree)
         /\ Owner(ZNodes[n].parent) = Longest(AncestorsIn(z, Owner(n)))

FindDnameBelowApex(z) ==
  /\ z.res.op = "find_dname"
  /\ IsSuffix(Owner(z.apex), z.res.arg) /\ z.res.arg # Owner(z.apex)

\* C18: in a zone whose parent links point to the closest ancestor present, for a
\* name strictly below the apex dnslib_zone_find_dname gives as closest encloser a
\* node of the plain tree whose owner is the longest one that is the name or an
\* ancestor of it: the found node on an exact match, an ancestor otherwise.
C18_ClosestEncloser ==
  (FindDnameBelowApex(zone) /\ ParentsClosest(zone)) =>
    LET name == zone.res.arg
        ce == zone.res.closest_encloser
    IN  /\ zone.res.ret \in {"DNSLIB_ZONE_NAME_FOUND", "DNSLIB_ZONE_NAME_NOT_FOUND"}
        /\ ce \in TreeNodes(zone.tree)
        /\ IsSuffix(Owner(ce), name)
        /\ \A m \in TreeNodes(zone.tree) :
             IsSuffix(Owner(m), name) => Len(Owner(m)) <= Len(Owner(ce))
        /\ (zone.res.ret = "DNSLIB_ZONE_NAME_FOUND")
             = (\E m \in TreeNodes(zone.tree) : Owner(m) = name)
        /\ zone.res.ret = "DNSLIB_ZONE_NAME_FOUND" => ce = zone.res.node

\* the name is not in the zone and its closest encloser, not the apex, was
\* reached from the predecessor over parent links
C18_Witness ==
  /\ FindDnameBelowApex(zone) /\ ParentsClosest(zone)
  /\ zone.res.ret = "DNSLIB_ZONE_NAME_NOT_FOUND"
  /\ zone.res.closest_encloser \notin {zone.res.node, zone.apex}

IsFind(z) == z.res.op \in {"find_dname", "find_dname_hash"}

\* C19: dnslib_zone_find_dname and dnslib_zone_find_dname_hash called with a name
\* that is neither the apex owner nor below it return DNSLIB_EBADZONE with node
\* and closest_encloser NULL, search neither the tree nor the hash table and
\* leave the zone as it was.
C19_OutOfZone ==
  [][(IsFind(zone') /\ ~IsSuffix(Owner(zone.apex), zone'.res.arg))
       => /\ zone'.res.ret = "DNSLIB_EBADZONE"
          /\ zone'.res.node = NoNode
          /\ zone'.res.closest_encloser = NoNode
          /\ ~zone'.res.searched
          /\ [zone' EXCEPT !.res = zone.res] = zone]_vars

\* the hash variant has refused a name outside a zone of several nodes
C19_Witness ==
  /\ zone.res.op = "find_dname_hash"
  /\ ~IsSuffix(Owner(zone.apex), zone.res.arg)
  /\ zone.res.ret = "DNSLIB_EBADZONE"
  /\ zone.table # NoTable
  /\ Cardinality(TreeNodes(zone.tree)) >= 3

(***************************************************************************)
(* Properties of the zone loader (SpecLoad)                                *)
(***************************************************************************)
\* post_load has returned for new contents that differ from the current ones,
\* with diffs configured, whose serial does not exceed the current serial
SerialNotAdvancing ==
  /\ zl.out # NotLoaded
  /\ zl.in.current = "other" /\ zl.in.build_diffs
  /\ zl.in.alloc_fail = "none"
  /\ ~(zl.in.dnssec_enable /\ zl.in.sign = "failed")
  /\ SignedSerial(zl.in) <= zl.in.old_serial

\* C20: post_load rejects with an error new contents that differ from the current
\* ones and whose serial did not advance: the change is neither committed nor
\* written to the journal.
C20_SerialMustAdvance ==
  SerialNotAdvancing =>
    /\ zl.out.ret # "KNOT_EOK"
    /\ ~zl.out.committed
    /\ ~zl.out.stored

(***************************************************************************)
(* Properties of publishing (SpecPublish)                                  *)
(***************************************************************************)
Held(v) == \E r \in Readers : zl.rd[r].ver = v

LastPublished == zl.published[Len(zl.published)]

Starts(r) == zl.rd[r].ver = NoContents /\ zl'.rd[r].ver # NoContents

\* C22: a reader that starts observes exactly the contents of the last update
\* the writer completed and published, whole: their identity and their data as they
\* were when published.
C22_ReaderSeesLastUpdate ==
  [][\A r \in Readers :
       Starts(r) =>
         /\ Len(zl.published) > 0
         /\ zl'.rd[r].ver = LastPublished.ver
         /\ zl'.rd[r].data = LastPublished.data
         /\ ~zl'.rd[r].torn]_vars

\* two updates were published while no reader was active, and a reader that started
\* afterwards holds contents
C22_Witness ==
  /\ Len(zl.published) >= 2
  /\ zl.w.pc = "idle"
  /\ \E r \in Readers :
       /\ zl.rd[r].ver = zl.contents
       /\ zl.rd[r].data > 0
       /\ \A q \in Readers \ {r} : zl.rd[q].ver = NoContents

(***************************************************************************)
(* Properties of clearing (SpecSection)                                    *)
(***************************************************************************)
\* C23: after knot_pkt_clear the packet is header-only: its size is the header
\* size, every header field is zero, it stores no RRSet, the current section is
\* ANSWER and no question is recorded, so that knot_pkt_question_size and a
\* following knot_pkt_clear_payload still give the header size.
C23_ClearIsHeaderOnly ==
  last.op = "clear" =>
    /\ pkt.size = KNOT_WIRE_HEADER_SIZE
    /\ pkt.hdr = ZeroHdr
    /\ rrset_count(pkt) = 0
    /\ pkt.current = KNOT_ANSWER
    /\ pkt.qname_size = 0
    /\ knot_pkt_question_size(pkt) = KNOT_WIRE_HEADER_SIZE
    /\ knot_pkt_clear_payload(pkt).size = KNOT_WIRE_HEADER_SIZE

(***************************************************************************)
(* Properties of the compressed name (SpecDname)                           *)
(***************************************************************************)
\* the labels a decoder reads from offset pos on, pointers followed; an offset that
\* holds no name bytes gives a label no name has
RECURSIVE Expand(_, _, _)
Expand(w, pos, fuel) ==
  IF fuel = 0 \/ pos \notin DOMAIN w THEN <<"?">>
  ELSE IF w[pos].k = "root" THEN <<>>
  ELSE IF w[pos].k = "ptr" THEN Expand(w, w[pos].to, fuel - 1)
  ELSE <<w[pos].l>> \o Expand(w, pos + CellSize(w[pos]), fuel - 1)

MaxExpand == 16

\* the number of labels written verbatim from offset pos on
RECURSIVE VerbatimCount(_, _)
VerbatimCount(w, pos) ==
  IF pos \in DOMAIN w /\ w[pos].k = "lab"
    THEN 1 + VerbatimCount(w, pos + CellSize(w[pos]))
  ELSE 0

\* the cell behind the labels written verbatim from offset pos on
RECURSIVE Terminal(_, _)
Terminal(w, pos) ==
  IF pos \in DOMAIN w /\ w[pos].k = "lab" THEN Terminal(w, pos + CellSize(w[pos])) ELSE w[pos]

\* the number of labels of the longest common suffix of two names
RECURSIVE CommonSuffix(_, _)
CommonSuffix(a, b) ==
  IF a = <<>> \/ b = <<>> \/ a[Len(a)] # b[Len(b)] THEN 0
  ELSE 1 + CommonSuffix(SubSeq(a, 1, Len(a) - 1), SubSeq(b, 1, Len(b) - 1))

HintName(c) == Expand(c.wire, c.suffix.pos, MaxExpand)

\* C24: knot_pkt_put_dname writes verbatim exactly the leading labels outside the
\* longest common suffix of the name and the hinted name, then a pointer to that
\* suffix, or the root label when nothing is shared; what is written expands to the
\* name; at most max bytes are written and KNOT_ESPACE is returned exactly when the
\* name so compressed does not fit.
C24_CompressedName ==
  [][cx'.n = cx.n + 1 =>
       LET dname == cx'.name
           k == CommonSuffix(dname, HintName(cx))
           lead == SubSeq(dname, 1, Len(dname) - k)
           need == LabelBytes(lead) + (IF k = 0 THEN 1 ELSE 2)
       IN  IF need > cx'.max THEN cx'.ret < 0
           ELSE /\ cx'.ret = need
                /\ VerbatimCount(cx'.wire, cx.wire_pos) = Len(lead)
                /\ Terminal(cx'.wire, cx.wire_pos).k = (IF k = 0 THEN "root" ELSE "ptr")
                /\ Expand(cx'.wire, cx.wire_pos, MaxExpand) = dname]_vars

(***************************************************************************)
(* Properties of the flags (SpecAdjust)                                    *)
(***************************************************************************)
\* C25: after the adjust pass every node of the plain tree that holds an NS RRSet
\* and is not the apex is flagged delegation_point, and the apex is not.
C25_NsNodesAreDelegations ==
  Adjusted(zone) =>
    /\ \A n \in TreeNodes(zone.tree) :
         ("NS" \in zone.rrsets[n] /\ n # zone.apex) => n \in zone.deleg_point
    /\ zone.apex \notin zone.deleg_point

(***************************************************************************)
(* Properties of the flags along the parent chain (SpecChain)              *)
(***************************************************************************)
\* the proper ancestors of node n along the parent links
RECURSIVE ParentChain(_)
ParentChain(n) ==
  IF ZNodes[n].parent = NoNode THEN {}
  ELSE {ZNodes[n].parent} \cup ParentChain(ZNodes[n].parent)

FlagsClear(z) == z.deleg_point = {} /\ z.non_auth = {}

\* C26: after an adjust pass over a zone whose flags were clear before it and whose
\* parent links lead to the closest ancestor in the tree, a node is flagged
\* non_authoritative exactly when some proper ancestor on its parent chain is
\* flagged delegation_point.
C26_NonAuthBelowDelegation ==
  [][(FlagsClear(zone) /\ Adjusted(zone') /\ zone'.tree = zone.tree /\ ParentsClosest(zone'))
       => \A n \in TreeNodes(zone'.tree) :
            n \in zone'.non_auth <=> ParentChain(n) \cap zone'.deleg_point # {}]_vars

\* the pass flagged a delegation, the node below it that holds an NS RRSet itself and
\* the node below that one, two levels under the delegation
C26_Witness ==
  /\ Adjusted(zone) /\ ParentsClosest(zone)
  /\ zone.deleg_point = {2}
  /\ zone.non_auth = {3, 11}

(***************************************************************************)
(* Properties of the walk to the closest encloser (SpecFind)               *)
(***************************************************************************)
\* the parent links of every node of the plain tree but the apex lead to the apex
ChainsToApex(z) ==
  \A n \in TreeNodes(z.tree) \ {z.apex} : z.apex \in ParentChain(n)

\* C27: in a zone in which every node's parent chain leads to the apex, for a name
\* strictly below the apex the walk of dnslib_zone_find_dname up the parents ends
\* at a node: no assert fails, and the closest encloser is the node the search gave
\* or a node of its parent chain, the apex at the latest.
C27_WalkEndsByApex ==
  (FindDnameBelowApex(zone) /\ ChainsToApex(zone)) =>
    /\ zone.res.ret # "ABORT"
    /\ zone.res.closest_encloser # NoNode
    /\ zone.res.closest_encloser \in {zone.res.node} \cup ParentChain(zone.res.node)

\* the walk went from the node the search gave up two parent links to the apex
C27_Witness ==
  /\ FindDnameBelowApex(zone) /\ ChainsToApex(zone)
  /\ zone.res.ret = "DNSLIB_ZONE_NAME_NOT_FOUND"
  /\ zone.res.closest_encloser = zone.apex
  /\ ZNodes[zone.res.node].parent \notin {NoNode, zone.apex}

(***************************************************************************)
(* Properties of the two lookups (SpecFind)                                *)
(***************************************************************************)
\* C28: in a zone made with a hash table, what dnslib_zone_find_dname_hash
\* returned for a name is what dnslib_zone_find_dname returns for it on the same
\* zone: the same status, the same node and the same closest encloser.
C28_HashLookupAgrees ==
  (zone.res.op = "find_dname_hash" /\ zone.node_count > 0) =>
    LET t == dnslib_zone_find_dname(zone, zone.res.arg)
    IN  /\ zone.res.ret = t.ret
        /\ zone.res.node = t.node
        /\ zone.res.closest_encloser = t.closest_encloser

(***************************************************************************)
(* Properties of the NSEC3 parameters (SpecParams)                         *)
(***************************************************************************)
ApexHasParam(z) == "NSEC3PARAM" \in z.rrsets[z.apex]

\* without NSEC3PARAM at the apex the parameters are cleared and no node of the
\* plain tree keeps an NSEC3 link
ClearedWithoutParam(z) ==
  ~ApexHasParam(z) =>
    /\ z.nsec3_params.algorithm = 0
    /\ \A n \in TreeNodes(z.tree) : z.nsec3_node[n] = NoNode

\* C29 as stated: after the adjust pass dnslib_zone_nsec3params gives parameters
\* exactly when the apex holds an NSEC3PARAM RRSet, and without one the parameters
\* are cleared and every NSEC3 link is null.
C29_Original ==
  Adjusted(zone) =>
    /\ (dnslib_zone_nsec3params(zone) # {}) = ApexHasParam(zone)
    /\ ClearedWithoutParam(zone)

\* C29: after the adjust pass dnslib_zone_nsec3params gives parameters exactly when
\* the apex holds an NSEC3PARAM RRSet whose algorithm field is not zero; without an
\* NSEC3PARAM RRSet the parameters are cleared and every NSEC3 link is null,
\* whatever an earlier pass had left.
C29_ParamsFollowApex ==
  Adjusted(zone) =>
    /\ (dnslib_zone_nsec3params(zone) # {})
         = (ApexHasParam(zone) /\ zone.param_rdata.algorithm # 0)
    /\ ClearedWithoutParam(zone)

\* a pass ran after the NSEC3PARAM RRSet was taken from an apex whose earlier pass
\* had loaded parameters and linked a node
C29_Witness ==
  /\ Adjusted(zone) /\ zone.left_over /\ ~ApexHasParam(zone)
  /\ TreeNodes(zone.nsec3_nodes) # {}

(***************************************************************************)
(* Properties of the order of post_load's steps (SpecLoad)                 *)
(***************************************************************************)
SignFailed(l) == l.in.dnssec_enable /\ l.in.sign = "failed"

\* zone_contents_create_diff was called and did not return KNOT_EOK
DiffFailed(l) == l.out.diff \notin {"", "KNOT_EOK"}

\* C30: post_load calls zone_change_store only after the signing, when enabled, the
\* diff, when made, and zone_change_commit all succeeded; when the signing or the
\* diff fails post_load returns an error and neither commits the current change
\* nor stores it; store is never called without that commit having succeeded.
C30_StoreOnlyAfterSuccess ==
  zl.out # NotLoaded =>
    /\ zl.out.stored => (~SignFailed(zl) /\ ~DiffFailed(zl) /\ zl.out.committed)
    /\ (SignFailed(zl) \/ DiffFailed(zl))
         => (zl.out.ret # "KNOT_EOK" /\ ~zl.out.committed /\ ~zl.out.stored)

(***************************************************************************)
(* Properties of apply_journal (SpecJournal)                               *)
(***************************************************************************)
\* the journal does not exist, the contents are empty, or the lookup gave no
\* changeset and reported success, a missing record or an incomplete range
NothingToApply(l) ==
  \/ ~l.in.journal_exists
  \/ l.in.empty
  \/ (l.out.looked_up /\ l.in.sets = 0
        /\ l.in.load_ret \in {"KNOT_EOK", "KNOT_ENOENT", "KNOT_ERANGE"})

\* C31: whenever there is nothing to apply, apply_journal returns KNOT_EOK and
\* leaves the contents as they are, whichever of these statuses the lookup gave
\* for the empty result.
C31_NothingToApplyIsOk ==
  (zl.out # NotJournaled /\ NothingToApply(zl)) =>
    /\ zl.out.ret = "KNOT_EOK"
    /\ ~zl.out.applied
    /\ zl.out.serial = zl.in.serial

(***************************************************************************)
(* Properties of the reserved space (SpecReserve)                          *)
(***************************************************************************)
\* the bytes kept for the OPT RR when EDNS is in use
OptReserve(p) == IF knot_pkt_have_edns(p) THEN p.opt_size ELSE 0

\* C32: in every state reached by init_response, put_question, tsig_set, add_opt,
\* begin and put calls, size + tsig_size + the OPT reserve is at most max_size, so
\* that pkt_remaining does not wrap and no put leaves size above max_size.
C32_ReserveFits ==
  /\ pkt.size + pkt.tsig_size + OptReserve(pkt) <= pkt.max_size
  /\ pkt_remaining(pkt) = pkt.max_size - pkt.size - pkt.tsig_size - OptReserve(pkt)
  /\ pkt.size <= pkt.max_size

\* the RRSet of the writer's pool that the last call was given
PutArg(id) == CHOOSE r \in BuildPool : r.id = id

\* a put that adds no RR: it fails, or it is given an RRSet that is already stored
\* and CHECKDUP, or an RRSet that serialises to zero RRs
PutAddsNothing ==
  /\ last'.op = "put"
  /\ \/ last'.ret # "KNOT_EOK"
     \/ /\ "CHECKDUP" \in last'.flags
        /\ \E i \in 1..Len(pkt.rr) : pkt.rr[i].rrset.id = last'.rr
     \/ PutArg(last'.rr).rd = <<>>

\* C33: a knot_pkt_put call that adds no RR leaves size, rrset_count, the three RR
\* counts, the current section and every stored RRSet entry as they were; the
\* only header change it may make is setting TC
C33_FailedPutKeepsPacket ==
  [][PutAddsNothing =>
       /\ pkt' = [pkt EXCEPT !.hdr.tc = pkt'.hdr.tc]
       /\ pkt.hdr.tc => pkt'.hdr.tc]_vars

\* a CHECKDUP put of an RRSet stored earlier, in another section, has returned
\* KNOT_EOK
C33_Witness ==
  /\ alive /\ last.op = "put" /\ last.ret = "KNOT_EOK" /\ "CHECKDUP" \in last.flags
  /\ Len(pkt.rr) = 1
  /\ pkt.rr[1].rrset.id = last.rr
  /\ pkt.rr[1].sec < last.sec

\* C34: whenever knot_pkt_parse returns KNOT_EOK every byte of the message has been
\* consumed and none beyond it: parsed = size; a message whose question entry or
\* last RR does not fit within size is rejected
C34_ParsedIsSize ==
  (last.op = "parse" /\ last.ret = "KNOT_EOK") => pkt.parsed = pkt.size

\* the number of TSIG RRs the received message carries
TsigCount(p) == Cardinality({i \in 1..Len(p.wire) : p.wire[i].type = "TSIG"})

\* C35: knot_pkt_parse returns KNOT_EMALF for every message that carries two or more
\* TSIG RRs, whatever their owners and classes and whatever the parse flags; after
\* a successful parse tsig_rr refers to the single TSIG RR of the message
C35_SecondTsigIsMalformed ==
  last.op = "parse" =>
    /\ TsigCount(pkt) >= 2 => last.ret = "KNOT_EMALF"
    /\ (last.ret = "KNOT_EOK" /\ pkt.tsig_rr # 0) => TsigCount(pkt) = 1

\* the section in which the i-th RR of a received message lies, by the header counts
WireSec(p, i) ==
  IF i <= p.hdr.an THEN KNOT_ANSWER
  ELSE IF i <= p.hdr.an + p.hdr.ns THEN KNOT_AUTHORITY
  ELSE KNOT_ADDITIONAL

\* the RRs that occur in section s on the wire
WireRRsIn(p, s) ==
  { <<knot_dname_to_lower(p.wire[i].owner), p.wire[i].type, p.wire[i].rclass, p.wire[i].rd>> :
      i \in {j \in 1..Len(p.wire) : WireSec(p, j) = s} }

\* the RRs held by the RRSets of section s's range
SectionRRsIn(p, s) ==
  UNION { { <<p.rr[i].rrset.owner, p.rr[i].rrset.type, p.rr[i].rrset.rclass, x>> :
              x \in Range(p.rr[i].rrset.rd) } :
          i \in (p.sections[s].start + 1)..(p.sections[s].start + p.sections[s].count) }

\* C36: after a successful parse the RRSet range of each section holds exactly the
\* RRs that occur in that section on the wire (an RR is merged only into an RRSet
\* of its own section), and the three section counts add up to rrset_count
C36_SectionsHoldTheirRRs ==
  (last.op = "parse" /\ last.ret = "KNOT_EOK") =>
    /\ \A s \in {KNOT_ANSWER, KNOT_AUTHORITY, KNOT_ADDITIONAL} :
         SectionRRsIn(pkt, s) = WireRRsIn(pkt, s)
    /\ pkt.sections[KNOT_ANSWER].count + pkt.sections[KNOT_AUTHORITY].count
         + pkt.sections[KNOT_ADDITIONAL].count = rrset_count(pkt)

\* C37: after a successful knot_pkt_init_response size is the header plus the copied
\* question, QDCOUNT is the number of question entries copied (0 for a query without
\* question, 1 otherwise), QR is set, TC, AD and RA are clear, the RR counts are
\* zero and the current section is ANSWER; when the question does not fit in
\* max_size the call returns KNOT_ESPACE and leaves the response unchanged
C37_InitResponse ==
  [][last'.op = "init_response" =>
       /\ last'.ret \in {"KNOT_EOK", "KNOT_ESPACE"}
       /\ last'.ret = "KNOT_ESPACE" => pkt' = pkt
       /\ last'.ret = "KNOT_EOK" =>
            /\ pkt'.size = KNOT_WIRE_HEADER_SIZE
                             + (IF pkt'.qname_size > 0 THEN pkt'.qname_size + 4 ELSE 0)
            /\ pkt'.hdr.qd = (IF pkt'.qname_size > 0 THEN 1 ELSE 0)
            /\ pkt'.hdr.qr /\ ~pkt'.hdr.tc /\ ~pkt'.hdr.ad /\ ~pkt'.hdr.ra
            /\ pkt'.hdr.an = 0 /\ pkt'.hdr.ns = 0 /\ pkt'.hdr.ar = 0
            /\ rrset_count(pkt') = 0
            /\ pkt'.current = KNOT_ANSWER]_vars

\* C38: knot_pkt_put_question on a header-only packet returns KNOT_ESPACE, with no
\* assertion violated and size, qname_size and QDCOUNT unchanged, whenever QNAME +
\* QTYPE + QCLASS does not fit in max_size; on success QDCOUNT is 1, size has grown
\* by the question's length and the current section is ANSWER
C38_QuestionSpace ==
  [][(last'.op = "put_question" /\ pkt.size = KNOT_WIRE_HEADER_SIZE /\ rrset_count(pkt) = 0) =>
       /\ pkt.size + knot_dname_size("a") + 4 > pkt.max_size =>
            /\ last'.ret = "KNOT_ESPACE"
            /\ alive'
            /\ pkt'.size = pkt.size /\ pkt'.qname_size = pkt.qname_size
            /\ pkt'.hdr.qd = pkt.hdr.qd
       /\ last'.ret = "KNOT_EOK" =>
            /\ pkt'.hdr.qd = 1
            /\ pkt'.size = pkt.size + knot_dname_size("a") + 4
            /\ pkt'.current = KNOT_ANSWER]_vars

\* C39: on every return of dnslib_zone_find_dname with FOUND or NOT_FOUND, for every
\* name of the zone, the apex name included, the three outputs have been assigned:
\* node, closest_encloser (not NULL) and previous (the node in front of the name)
C39_OutputsAssigned ==
  (/\ zone.res.op = "find_dname"
   /\ zone.res.ret \in {"DNSLIB_ZONE_NAME_FOUND", "DNSLIB_ZONE_NAME_NOT_FOUND"}) =>
    /\ zone.res.node # Unassigned
    /\ zone.res.closest_encloser \notin {Unassigned, NoNode}
    /\ zone.res.previous # Unassigned

\* C40: whenever the adjust pass runs on a zone built through
\* dnslib_zone_add_nsec3_node, every RRSet of every node of the NSEC3 tree has type
\* NSEC3: the assertion of dnslib_zone_adjust_nsec3_node holds
C40_Nsec3TreeHoldsNsec3 ==
  zone.res.op = "adjust_dnames" =>
    \A n \in TreeNodes(zone.nsec3_nodes) : zone.rrsets[n] \subseteq {"NSEC3"}

====
